---- MODULE Spec2Model ----
(***************************************************************************)
(* Model of the interview decision core of pirtis-voice-agent:             *)
(*   backend/app/services/quick_policy.py  (quick-mode policy)             *)
(*   backend/app/services/scoring.py       (skip filter, scoring engine)   *)
(*   backend/app/services/risk.py          (risk rule evaluator)           *)
(*   backend/app/services/brain.py         (configuration cache)           *)
(*   backend/app/routers/session.py        (start_session, submit_answer)  *)
(*                                                                         *)
(* Floats are fixed-point integers: weights and scores are in tenths       *)
(* (0.1 is 1, 3.0 is 30), confidences and thresholds in hundredths         *)
(* (0.55 is 55).  Python's None is the empty tuple, a present value x is   *)
(* the one-element tuple <<x>>.  A dict is a TLA+ function whose DOMAIN is *)
(* the set of its keys, so "k in d" is k \in DOMAIN d.                     *)
(***************************************************************************)
EXTENDS Integers, Sequences, FiniteSets, TLC

VARIABLES
    brain_config,  \* the configuration snapshot a session works against
    state,         \* sessions.state: the persisted state of one session
    request,       \* the submit_answer request being answered, with the extraction result
    response,      \* the SubmitAnswerResponse last returned
    call,          \* arguments of the pure function under evaluation
    result,        \* its return value
    cache,         \* BrainConfigLoader's six fields (the process-wide singleton)
    db,            \* the configuration stored in the database (its version)
    procs          \* the coroutines of the event loop: position and what each has read

vars == <<brain_config, state, request, response, call, result, cache, db, procs>>

----------------------------------------------------------------------------
(* Optional values and dict access *)

None == <<>>

Some(x) == <<x>>

IsNone(o) == o = <<>>

Val(o) == o[1]

\* dict.get(k, default)
Get(d, k, default) == IF k \in DOMAIN d THEN d[k] ELSE default

Range(s) == {s[i] : i \in DOMAIN s}

----------------------------------------------------------------------------
(* Strings are sequences of characters; str.lower, str.strip, "x in s" *)

LowerChar(c) == IF c = "A" THEN "a" ELSE IF c = "B" THEN "b" ELSE c

Lower(s) == [i \in DOMAIN s |-> LowerChar(s[i])]

RECURSIVE LStrip(_)
LStrip(s) == IF s # <<>> /\ Head(s) = " " THEN LStrip(Tail(s)) ELSE s

RECURSIVE RStrip(_)
RStrip(s) ==
    IF s # <<>> /\ s[Len(s)] = " " THEN RStrip(SubSeq(s, 1, Len(s) - 1)) ELSE s

Strip(s) == RStrip(LStrip(s))

\* pat in s
Contains(pat, s) ==
    \E i \in 0..(Len(s) - Len(pat)) : SubSeq(s, i + 1, i + Len(pat)) = pat

\* str(value).lower() of a present string value
StrLower(v) == Lower(v)

----------------------------------------------------------------------------
(* Answer texts: only the number of leading blanks, of characters from the *)
(* first to the last non-blank one, and of trailing blanks is kept.        *)

TextLen(t) == t.lead + t.body + t.trail

TextStrip(t) == [lead |-> 0, body |-> t.body, trail |-> 0]

----------------------------------------------------------------------------
(* Slot maps: key -> [value |-> None or <<string>>, confidence |-> 0..100] *)

EmptyDict == <<>>

\* slots.get(key, {}).get("value")
SlotValueOf(slots, key) == IF key \in DOMAIN slots THEN slots[key].value ELSE None

\* {**d1, **d2}
Merge(d1, d2) ==
    [k \in (DOMAIN d1) \cup (DOMAIN d2) |-> IF k \in DOMAIN d2 THEN d2[k] ELSE d1[k]]

----------------------------------------------------------------------------
(* quick_policy.py *)

MinTextLength == 15

DefaultMaxQuestions == 8

DefaultLowInfoStreakMax == 2

DefaultQuickWeights ==
    [missing_critical_slot_bonus |-> 20, uncertain_critical_slot_bonus |-> 12,
     resolve_risk_bonus |-> 0, diversify_topic_penalty |-> 4, repeat_slot_penalty |-> 7]

\* load_quick_policy: None, or <<policy>> parsed from config_values["modes_quick"]
load_quick_policy(config_values) ==
    LET raw == Get(config_values, "modes_quick", None) IN
    IF raw = EmptyDict THEN None
    ELSE IF ~Get(raw, "enabled", TRUE) THEN None
    ELSE
        LET limits == Get(raw, "limits", EmptyDict)
            scoring_raw == Get(Get(raw, "scoring_overrides", EmptyDict), "weights", EmptyDict)
        IN  Some([enabled |-> Get(raw, "enabled", TRUE),
                  max_questions |-> Get(limits, "max_questions", DefaultMaxQuestions),
                  max_clarifications |-> Get(limits, "max_clarifications", 0),
                  low_info_streak_max |->
                      Get(limits, "low_info_streak_max", DefaultLowInfoStreakMax),
                  critical_slots |-> Get(raw, "critical_slots", <<>>),
                  clarify_threshold |-> Get(raw, "clarify_threshold", 55),
                  scoring_weights |-> Merge(DefaultQuickWeights, scoring_raw)])

\* mutant: a critical slot counts only with a value and a confidence of at least 0.55
AllCriticalFilled_Confident(policy, slots) ==
    \A i \in DOMAIN policy.critical_slots :
        LET id == Get(policy.critical_slots[i], "id", "") IN
        /\ ~IsNone(SlotValueOf(slots, id))
        /\ slots[id].confidence >= 55

\* the loop of evaluate_stop_conditions over policy.critical_slots
AllCriticalFilled(policy, slots) ==
    \A i \in DOMAIN policy.critical_slots :
        ~IsNone(SlotValueOf(slots, Get(policy.critical_slots[i], "id", "")))

\* mutant: the question budget is checked before the critical slots
evaluate_stop_conditions_BudgetFirst(policy, slots, asked_count, low_info_streak) ==
    IF asked_count >= policy.max_questions
    THEN <<TRUE, Some("max_questions")>>
    ELSE IF policy.critical_slots # <<>> /\ AllCriticalFilled(policy, slots)
    THEN <<TRUE, Some("critical_slots_met")>>
    ELSE IF low_info_streak >= policy.low_info_streak_max
    THEN <<TRUE, Some("low_info_streak")>>
    ELSE <<FALSE, None>>

\* mutant: the streak must exceed low_info_streak_max before the session stops
evaluate_stop_conditions_StreakStrict(policy, slots, asked_count, low_info_streak) ==
    IF policy.critical_slots # <<>> /\ AllCriticalFilled(policy, slots)
    THEN <<TRUE, Some("critical_slots_met")>>
    ELSE IF asked_count >= policy.max_questions
    THEN <<TRUE, Some("max_questions")>>
    ELSE IF low_info_streak > policy.low_info_streak_max
    THEN <<TRUE, Some("low_info_streak")>>
    ELSE <<FALSE, None>>

\* mutant: asked_count must exceed max_questions before the session stops
evaluate_stop_conditions_BudgetStrict(policy, slots, asked_count, low_info_streak) ==
    IF policy.critical_slots # <<>> /\ AllCriticalFilled(policy, slots)
    THEN <<TRUE, Some("critical_slots_met")>>
    ELSE IF asked_count > policy.max_questions
    THEN <<TRUE, Some("max_questions")>>
    ELSE IF low_info_streak >= policy.low_info_streak_max
    THEN <<TRUE, Some("low_info_streak")>>
    ELSE <<FALSE, None>>

\* evaluate_stop_conditions: <<should_stop, reason>>
evaluate_stop_conditions(policy, slots, asked_count, low_info_streak) ==
    IF policy.critical_slots # <<>> /\ AllCriticalFilled(policy, slots)
    THEN <<TRUE, Some("critical_slots_met")>>
    ELSE IF asked_count >= policy.max_questions
    THEN <<TRUE, Some("max_questions")>>
    ELSE IF low_info_streak >= policy.low_info_streak_max
    THEN <<TRUE, Some("low_info_streak")>>
    ELSE <<FALSE, None>>

\* the updates counter of calculate_low_info
LowInfoUpdates(slots_before, slots_after) ==
    Cardinality({key \in DOMAIN slots_after :
        LET before_val == SlotValueOf(slots_before, key)
            after_val == slots_after[key].value
        IN  \/ IsNone(before_val) /\ ~IsNone(after_val)
            \/ before_val # after_val /\ ~IsNone(after_val)})

calculate_low_info(slots_before, slots_after, answer_text) ==
    IF TextLen(TextStrip(answer_text)) < MinTextLength THEN TRUE
    ELSE LowInfoUpdates(slots_before, slots_after) = 0

\* mutant: the bonus is given once, however many unset critical slots are covered
CriticalBonus_Once(cs, slot_coverage, slots, weights) ==
    IF \E i \in DOMAIN cs :
          cs[i].id \in slot_coverage /\ IsNone(SlotValueOf(slots, cs[i].id))
    THEN Get(weights, "missing_critical_slot_bonus", 20) ELSE 0

\* sum over the critical slots of the missing-critical bonus
RECURSIVE CriticalBonus(_, _, _, _)
CriticalBonus(cs, slot_coverage, slots, weights) ==
    IF cs = <<>> THEN 0
    ELSE (IF Head(cs).id \in slot_coverage /\ IsNone(SlotValueOf(slots, Head(cs).id))
          THEN Get(weights, "missing_critical_slot_bonus", 20) ELSE 0)
         + CriticalBonus(Tail(cs), slot_coverage, slots, weights)

quick_adjustment(question, slots, policy, last_question_id) ==
    LET weights == policy.scoring_weights
        slot_coverage == Range(Get(question, "slot_coverage", <<>>))
        bonus == CriticalBonus(policy.critical_slots, slot_coverage, slots, weights)
        covers_missing_critical ==
            \E i \in DOMAIN policy.critical_slots :
                /\ policy.critical_slots[i].id \in slot_coverage
                /\ IsNone(SlotValueOf(slots, policy.critical_slots[i].id))
        diversify ==
            IF /\ ~IsNone(last_question_id)
               /\ Val(last_question_id) # ""
               /\ ~covers_missing_critical
               /\ Get(question, "question_id", "") = Val(last_question_id)
            THEN Get(weights, "diversify_topic_penalty", 4) ELSE 0
        repeat ==
            IF /\ slot_coverage # {}
               /\ \A s \in slot_coverage : ~IsNone(SlotValueOf(slots, s))
            THEN Get(weights, "repeat_slot_penalty", 7) ELSE 0
    IN  bonus - diversify - repeat

\* mutant: the percentage is rounded to the nearest integer
calculate_quick_progress_Rounded(policy, slots) ==
    IF policy.critical_slots = <<>> THEN 0
    ELSE LET filled == Cardinality({i \in DOMAIN policy.critical_slots :
                           ~IsNone(SlotValueOf(slots, policy.critical_slots[i].id))})
         IN  (100 * filled + Len(policy.critical_slots) \div 2)
                 \div Len(policy.critical_slots)

calculate_quick_progress(policy, slots) ==
    IF policy.critical_slots = <<>> THEN 0
    ELSE LET filled == Cardinality({i \in DOMAIN policy.critical_slots :
                           ~IsNone(SlotValueOf(slots, policy.critical_slots[i].id))})
         IN  (100 * filled) \div Len(policy.critical_slots)

----------------------------------------------------------------------------
(* risk.py *)

_slot_contains_any(slot_value, patterns) ==
    IF IsNone(slot_value) THEN FALSE
    ELSE \E i \in DOMAIN patterns : Contains(Lower(patterns[i]), StrLower(Val(slot_value)))

_slot_not_contains_any(slot_value, patterns) ==
    IF IsNone(slot_value) THEN TRUE
    ELSE ~\E i \in DOMAIN patterns : Contains(Lower(patterns[i]), StrLower(Val(slot_value)))

\* mutant: the comparison ignores case only, blanks at the ends are kept
_slot_eq_any_CaseOnly(slot_value, values) ==
    IF IsNone(slot_value) THEN FALSE
    ELSE \E i \in DOMAIN values : Lower(values[i]) = StrLower(Val(slot_value))

_slot_eq_any(slot_value, values) ==
    IF IsNone(slot_value) THEN FALSE
    ELSE \E i \in DOMAIN values :
            Strip(Lower(values[i])) = Strip(StrLower(Val(slot_value)))

_evaluate_condition(slots, condition) ==
    LET slot_key == Get(condition, "slot", "") IN
    IF slot_key = "" THEN FALSE
    ELSE LET slot_value == SlotValueOf(slots, slot_key) IN
         IF "contains_any" \in DOMAIN condition
         THEN _slot_contains_any(slot_value, condition["contains_any"])
         ELSE IF "not_contains_any" \in DOMAIN condition
         THEN _slot_not_contains_any(slot_value, condition["not_contains_any"])
         ELSE IF "eq_any" \in DOMAIN condition
         THEN _slot_eq_any(slot_value, condition["eq_any"])
         ELSE FALSE

\* mutant: an all-rule matches as soon as one child holds
_evaluate_rule_AllAsAny(slots, rule_json) ==
    IF "all" \in DOMAIN rule_json
    THEN \E i \in DOMAIN rule_json["all"] : _evaluate_condition(slots, rule_json["all"][i])
    ELSE IF "any" \in DOMAIN rule_json
    THEN \E i \in DOMAIN rule_json["any"] : _evaluate_condition(slots, rule_json["any"][i])
    ELSE _evaluate_condition(slots, rule_json)

_evaluate_rule(slots, rule_json) ==
    IF "all" \in DOMAIN rule_json
    THEN \A i \in DOMAIN rule_json["all"] : _evaluate_condition(slots, rule_json["all"][i])
    ELSE IF "any" \in DOMAIN rule_json
    THEN \E i \in DOMAIN rule_json["any"] : _evaluate_condition(slots, rule_json["any"][i])
    ELSE _evaluate_condition(slots, rule_json)

\* mutant: the evidence holds the slots of the conditions back to front
RECURSIVE EvidenceOf_BackToFront(_)
EvidenceOf_BackToFront(conditions) ==
    IF conditions = <<>> THEN <<>>
    ELSE EvidenceOf_BackToFront(Tail(conditions))
           \o (IF Get(Head(conditions), "slot", "") # ""
               THEN <<Head(conditions)["slot"]>> ELSE <<>>)

\* the evidence loop: the "slot" of each condition that names one, in order
RECURSIVE EvidenceOf(_)
EvidenceOf(conditions) ==
    IF conditions = <<>> THEN <<>>
    ELSE (IF Get(Head(conditions), "slot", "") # ""
          THEN <<Head(conditions)["slot"]>> ELSE <<>>) \o EvidenceOf(Tail(conditions))

RuleConditions(rule_json) ==
    Get(rule_json, "all", Get(rule_json, "any", <<rule_json>>))

RECURSIVE evaluate_risk_rules(_, _)
evaluate_risk_rules(slots, rules) ==
    IF rules = <<>> THEN <<>>
    ELSE LET rule == Head(rules)
             rule_json == Get(rule, "rule_json", EmptyDict)
             rest == evaluate_risk_rules(slots, Tail(rules))
         IN  IF ~Get(rule, "enabled", TRUE) THEN rest
             ELSE IF _evaluate_rule(slots, rule_json)
             THEN <<[code |-> Get(rule, "code", "UNKNOWN"),
                     severity |-> Get(rule, "severity", "medium"),
                     note |-> Get(rule, "note_template", None),
                     evidence |-> EvidenceOf(RuleConditions(rule_json))]>> \o rest
             ELSE rest

\* a JSON scalar standing where a condition dict is expected: c.get raises on it
NotADict == [json |-> "string"]

\* all(...) / any(...) over the children stop at the first child evaluating to
\* stop_on; reaching a child that is not a dict before that raises AttributeError
RECURSIVE ChildrenRaise(_, _, _)
ChildrenRaise(slots, conditions, stop_on) ==
    IF conditions = <<>> THEN FALSE
    ELSE IF "json" \in DOMAIN Head(conditions) THEN TRUE
    ELSE IF _evaluate_condition(slots, Head(conditions)) = stop_on THEN FALSE
    ELSE ChildrenRaise(slots, Tail(conditions), stop_on)

\* one iteration of the loop of evaluate_risk_rules raises: in _evaluate_rule, or in
\* the evidence loop, which calls c.get on every child of a rule that matched
RuleRaises(slots, rule) ==
    LET rule_json == Get(rule, "rule_json", EmptyDict) IN
    /\ Get(rule, "enabled", TRUE)
    /\ \/ "all" \in DOMAIN rule_json /\ ChildrenRaise(slots, rule_json["all"], FALSE)
       \/ /\ "all" \notin DOMAIN rule_json
          /\ "any" \in DOMAIN rule_json
          /\ \/ ChildrenRaise(slots, rule_json["any"], TRUE)
             \/ /\ _evaluate_rule(slots, rule_json)
                /\ \E i \in DOMAIN rule_json["any"] : "json" \in DOMAIN rule_json["any"][i]

\* evaluate_risk_rules has no try/except: the first raising rule ends the call
RiskRulesRaise(slots, rules) == \E i \in DOMAIN rules : RuleRaises(slots, rules[i])

----------------------------------------------------------------------------
(* scoring.py *)

\* one iteration of the loop of evaluate_skip_rules: does the rule fire
SkipRuleFires(rule, slots) ==
    LET condition_slot == Get(rule, "condition_slot", "")
        condition_type == Get(rule, "condition_type", "")
        condition_values == Get(rule, "condition_values", <<>>)
    IN  IF condition_slot \notin DOMAIN slots THEN FALSE
        ELSE LET value == slots[condition_slot].value
                 slot_str == IF ~IsNone(value) /\ Val(value) # <<>>
                             THEN StrLower(Val(value)) ELSE <<>>
                 contains_any == \E i \in DOMAIN condition_values :
                                    Contains(Lower(condition_values[i]), slot_str)
                 equals_any == \E i \in DOMAIN condition_values :
                                    Lower(condition_values[i]) = slot_str
             IN  IF condition_type = "contains_any" THEN contains_any
                 ELSE IF condition_type = "not_contains_any" THEN ~contains_any
                 ELSE IF condition_type = "equals_any" THEN equals_any
                 ELSE IF condition_type = "not_equals_any" THEN ~equals_any
                 ELSE FALSE

\* mutant: a firing rule replaces the set instead of adding to it
evaluate_skip_rules_LastWins(skip_rules, slots) ==
    LET firing == {j \in DOMAIN skip_rules : SkipRuleFires(skip_rules[j], slots)}
    IN  IF firing = {} THEN {}
        ELSE Range(Get(skip_rules[CHOOSE i \in firing : \A j \in firing : j <= i],
                       "skip_question_ids", <<>>))

evaluate_skip_rules(skip_rules, slots) ==
    UNION {Range(Get(skip_rules[i], "skip_question_ids", <<>>)) :
              i \in {j \in DOMAIN skip_rules : SkipRuleFires(skip_rules[j], slots)}}

DefaultBasePriority == 50

\* mutant: the required bonus counts every covered required slot, missing or not
calculate_question_score_RequiredAny(question, current_round, missing_slots, active_risk_codes, asked_question_ids, required_slots, weights) ==
    LET question_id == Get(question, "question_id", "")
        s1 == Get(question, "base_priority", 50) * Get(weights, "base_priority", 1)
        slot_coverage == Range(Get(question, "slot_coverage", <<>>))
        s2 == s1 + Cardinality(slot_coverage \cap missing_slots)
                       * Get(weights, "missing_slot", 30)
        s3 == s2 + Cardinality(slot_coverage \cap required_slots)
                       * Get(weights, "required_slot_bonus", 20)
        risk_coverage == Range(Get(question, "risk_coverage", <<>>))
        s4 == s3 + Cardinality(risk_coverage \cap active_risk_codes)
                       * Get(weights, "risk", 20)
        s5 == IF Get(question, "round_hint", None) = Some(current_round)
              THEN s4 + Get(weights, "round_fit", 15) ELSE s4
    IN  IF question_id \in asked_question_ids
        THEN s5 + Get(weights, "asked_penalty", -50) ELSE s5

\* mutant: the asked penalty is subtracted instead of added
calculate_question_score_PenaltySign(question, current_round, missing_slots, active_risk_codes, asked_question_ids, required_slots, weights) ==
    LET question_id == Get(question, "question_id", "")
        s1 == Get(question, "base_priority", 50) * Get(weights, "base_priority", 1)
        slot_coverage == Range(Get(question, "slot_coverage", <<>>))
        s2 == s1 + Cardinality(slot_coverage \cap missing_slots)
                       * Get(weights, "missing_slot", 30)
        s3 == s2 + Cardinality((slot_coverage \cap required_slots) \cap missing_slots)
                       * Get(weights, "required_slot_bonus", 20)
        risk_coverage == Range(Get(question, "risk_coverage", <<>>))
        s4 == s3 + Cardinality(risk_coverage \cap active_risk_codes)
                       * Get(weights, "risk", 20)
        s5 == IF Get(question, "round_hint", None) = Some(current_round)
              THEN s4 + Get(weights, "round_fit", 15) ELSE s4
    IN  IF question_id \in asked_question_ids
        THEN s5 - Get(weights, "asked_penalty", -50) ELSE s5

calculate_question_score(question, current_round, missing_slots, active_risk_codes, asked_question_ids, required_slots, weights) ==
    LET question_id == Get(question, "question_id", "")
        s1 == Get(question, "base_priority", DefaultBasePriority)
                  * Get(weights, "base_priority", 1)
        slot_coverage == Range(Get(question, "slot_coverage", <<>>))
        s2 == s1 + Cardinality(slot_coverage \cap missing_slots)
                       * Get(weights, "missing_slot", 30)
        s3 == s2 + Cardinality((slot_coverage \cap required_slots) \cap missing_slots)
                       * Get(weights, "required_slot_bonus", 20)
        risk_coverage == Range(Get(question, "risk_coverage", <<>>))
        s4 == s3 + Cardinality(risk_coverage \cap active_risk_codes)
                       * Get(weights, "risk", 20)
        s5 == IF Get(question, "round_hint", None) = Some(current_round)
              THEN s4 + Get(weights, "round_fit", 15) ELSE s4
    IN  IF question_id \in asked_question_ids
        THEN s5 + Get(weights, "asked_penalty", -50) ELSE s5

\* slot_def.get("slot_key") or slot_def.get("key")
SlotDefKey(slot_def) ==
    IF Get(slot_def, "slot_key", "") # "" THEN slot_def["slot_key"]
    ELSE Get(slot_def, "key", "")

ConfidenceThreshold == 55

\* the missing_slots loop of select_next_questions
MissingSlots(slot_definitions, slots, confidence_threshold) ==
    {SlotDefKey(slot_definitions[i]) : i \in {j \in DOMAIN slot_definitions :
        /\ SlotDefKey(slot_definitions[j]) # ""
        /\ \/ SlotDefKey(slot_definitions[j]) \notin DOMAIN slots
           \/ slots[SlotDefKey(slot_definitions[j])].confidence < confidence_threshold}}

RequiredSlots(slot_definitions) ==
    {SlotDefKey(slot_definitions[i]) : i \in {j \in DOMAIN slot_definitions :
        Get(slot_definitions[j], "is_required", FALSE)}}

ActiveRiskCodes(risk_flags) == {risk_flags[i].code : i \in DOMAIN risk_flags}

\* mutant: an entry goes before the entries of equal score
RECURSIVE InsertDesc_Unstable(_, _)
InsertDesc_Unstable(x, sorted) ==
    IF sorted = <<>> THEN <<x>>
    ELSE IF Head(sorted)[1] > x[1]
    THEN <<Head(sorted)>> \o InsertDesc_Unstable(x, Tail(sorted))
    ELSE <<x>> \o sorted

\* list.sort(key=score, reverse=True) is stable: x goes after every entry scoring >= x
RECURSIVE InsertDesc(_, _)
InsertDesc(x, sorted) ==
    IF sorted = <<>> THEN <<x>>
    ELSE IF Head(sorted)[1] >= x[1] THEN <<Head(sorted)>> \o InsertDesc(x, Tail(sorted))
    ELSE <<x>> \o sorted

RECURSIVE SortDesc(_)
SortDesc(scored) ==
    IF scored = <<>> THEN <<>>
    ELSE InsertDesc(scored[Len(scored)], SortDesc(SubSeq(scored, 1, Len(scored) - 1)))

\* q.get("text_lt") or q.get("text_en", "")
QuestionText(q) ==
    IF Get(q, "text_lt", "") # "" THEN q["text_lt"] ELSE Get(q, "text_en", "")

ToQuestion(q) ==
    [id |-> Get(q, "question_id", ""), text |-> QuestionText(q),
     round_hint |-> Get(q, "round_hint", None)]

\* the scoring loop of select_next_questions: <<score, q>> of each eligible question
RECURSIVE ScoredQuestions(_, _, _, _, _, _, _, _)
ScoredQuestions(questions, questions_to_skip, current_round, missing_slots, active_risk_codes, asked_set, required_slots, weights) ==
    IF questions = <<>> THEN <<>>
    ELSE LET q == Head(questions)
             rest == ScoredQuestions(Tail(questions), questions_to_skip, current_round,
                         missing_slots, active_risk_codes, asked_set, required_slots, weights)
         IN  IF ~Get(q, "enabled", TRUE) THEN rest
             ELSE IF Get(q, "question_id", "") \in questions_to_skip THEN rest
             ELSE <<<<calculate_question_score(q, current_round, missing_slots,
                         active_risk_codes, asked_set, required_slots, weights), q>>>> \o rest

\* the first count entries of the sorted list, as Question objects
TopQuestions(scored_questions, count) ==
    [i \in 1..(IF Len(scored_questions) < count THEN Len(scored_questions) ELSE count)
        |-> ToQuestion(scored_questions[i][2])]

select_next_questions(questions, slots, risk_flags, asked_question_ids, current_round, weights, slot_definitions, skip_rules, count, confidence_threshold) ==
    TopQuestions(
        SortDesc(ScoredQuestions(questions,
            IF skip_rules # <<>> THEN evaluate_skip_rules(skip_rules, slots) ELSE {},
            current_round, MissingSlots(slot_definitions, slots, confidence_threshold),
            ActiveRiskCodes(risk_flags), Range(asked_question_ids),
            RequiredSlots(slot_definitions), weights)),
        count)

QuickCandidateCount == 5

\* q_lookup of select_next_question_quick: the last question carrying the id
QLookup(questions, id) ==
    LET idx == {i \in DOMAIN questions : Get(questions[i], "question_id", "") = id}
    IN  IF idx = {} THEN None
        ELSE Some(questions[CHOOSE i \in idx : \A j \in idx : j <= i])

\* the re-rank loop of select_next_question_quick: <<final_score, candidate>>
RECURSIVE QuickScored(_, _, _, _, _, _, _, _, _)
QuickScored(candidates, questions, slots, slots_raw, risk_flags, asked_set, weights, slot_definitions, pl) ==
    IF candidates = <<>> THEN <<>>
    ELSE LET candidate == Head(candidates)
             q_dict == QLookup(questions, candidate.id)
             rest == QuickScored(Tail(candidates), questions, slots, slots_raw, risk_flags,
                                 asked_set, weights, slot_definitions, pl)
         IN  IF IsNone(q_dict) THEN rest
             ELSE LET base_score == calculate_question_score(Val(q_dict), 1,
                          MissingSlots(slot_definitions, slots, pl.confidence_threshold),
                          ActiveRiskCodes(risk_flags), asked_set,
                          RequiredSlots(slot_definitions), weights)
                      adj == quick_adjustment(Val(q_dict), slots_raw, pl.policy,
                                              pl.last_question_id)
                  IN  <<<<base_score + adj, candidate>>>> \o rest

\* mutant: the top entry is returned whatever its id
FirstOther_Top(scored, last_question_id) == scored[1][2]

\* the dedup loop: the first entry whose id differs from last_question_id
FirstOther(scored, last_question_id) ==
    LET idx == {i \in DOMAIN scored : Some(scored[i][2].id) # last_question_id}
    IN  IF idx = {} THEN scored[1][2]
        ELSE scored[CHOOSE i \in idx : \A j \in idx : i <= j][2]

\* the end of select_next_question_quick, from the sorted re-ranked list
QuickBest(scored, last_question_id) ==
    IF scored = <<>> THEN None ELSE Some(FirstOther(scored, last_question_id))

\* select_next_question_quick from the candidates on
QuickRerank(candidates, questions, slots, slots_raw, risk_flags, asked_question_ids, weights, slot_definitions, policy, last_question_id) ==
    IF candidates = <<>> THEN None
    ELSE QuickBest(
             SortDesc(QuickScored(candidates, questions, slots, slots_raw, risk_flags,
                 Range(asked_question_ids), weights, slot_definitions,
                 [policy |-> policy, last_question_id |-> last_question_id,
                  confidence_threshold |-> ConfidenceThreshold])),
             last_question_id)

\* select_next_question_quick: None, or <<Question>>
select_next_question_quick(questions, slots, slots_raw, risk_flags, asked_question_ids, weights, slot_definitions, skip_rules, policy, last_question_id) ==
    QuickRerank(
        select_next_questions(questions, slots, risk_flags, asked_question_ids, 1, weights,
            slot_definitions, skip_rules, QuickCandidateCount, ConfidenceThreshold),
        questions, slots, slots_raw, risk_flags, asked_question_ids, weights,
        slot_definitions, policy, last_question_id)

----------------------------------------------------------------------------
(* Bounded inputs *)

\* cap on the counters handed to a pure function
MaxCount == 4

ValueA == <<"a">>

ValueB == <<"A", "b">>

\* slot values as the extraction collaborator reports them
SlotValuePool ==
    {[value |-> None, confidence |-> 0],
     [value |-> Some(ValueA), confidence |-> 0],
     [value |-> Some(ValueA), confidence |-> 90],
     [value |-> Some(ValueB), confidence |-> 50]}

\* slot maps over the keys s1, s2, and one in which s2 is absent
SlotMapPool ==
    [{"s1", "s2"} -> SlotValuePool] \cup [{"s1"} -> SlotValuePool]

QuickFull ==
    [limits |-> [max_questions |-> 4, low_info_streak_max |-> 2],
     critical_slots |-> <<[id |-> "s1"], [id |-> "s2"]>>]

QuickNoCritical == [limits |-> [max_questions |-> 3]]

QuickOneCritical ==
    [enabled |-> TRUE,
     limits |-> [max_questions |-> 2, low_info_streak_max |-> 3],
     critical_slots |-> <<[id |-> "s1"]>>,
     scoring_overrides |-> [weights |-> [repeat_slot_penalty |-> 10]]]

QuickDisabled == [enabled |-> FALSE, critical_slots |-> <<[id |-> "s1"]>>]

\* brain_config._config_values as the database can hold it
ConfigValuesPool ==
    {[report_footer |-> "footer"],
     [modes_quick |-> QuickFull],
     [modes_quick |-> QuickNoCritical],
     [modes_quick |-> QuickOneCritical],
     [modes_quick |-> QuickDisabled]}

PolicyPool ==
    {Val(load_quick_policy(cv)) : cv \in {c \in ConfigValuesPool :
                                             ~IsNone(load_quick_policy(c))}}

IdleSession ==
    /\ brain_config = <<>>
    /\ state = <<>>
    /\ request = <<>>
    /\ response = <<>>

IdleCall == call = <<>> /\ result = <<>>

IdleReload == cache = <<>> /\ db = 0 /\ procs = <<>>

----------------------------------------------------------------------------
(* evaluate_stop_conditions applied to every bounded input *)

InitStop ==
    /\ call \in [fn : {"evaluate_stop_conditions"}, policy : PolicyPool,
                 slots : SlotMapPool, asked_count : 0..MaxCount,
                 low_info_streak : 0..MaxCount]
    /\ result = <<>>
    /\ IdleSession
    /\ IdleReload

EvalStop ==
    /\ call # <<>>
    /\ call.fn = "evaluate_stop_conditions"
    /\ result = <<>>
    /\ result' = <<evaluate_stop_conditions(call.policy, call.slots, call.asked_count,
                                            call.low_info_streak)>>
    /\ UNCHANGED <<brain_config, state, request, response, call, cache, db, procs>>

SpecStop == InitStop /\ [][EvalStop]_vars

StopEvaluated ==
    /\ call # <<>>
    /\ call.fn = "evaluate_stop_conditions"
    /\ result # <<>>

\* the ids of the configured critical slots
CriticalIds(policy) == {policy.critical_slots[i].id : i \in DOMAIN policy.critical_slots}

HasValue(slots, id) == id \in DOMAIN slots /\ slots[id].value # None

\* every configured critical slot has a non-null value
EveryCriticalHasValue(policy, slots) == \A id \in CriticalIds(policy) : HasValue(slots, id)

CondCritical(c) == CriticalIds(c.policy) # {} /\ EveryCriticalHasValue(c.policy, c.slots)

CondMaxQuestions(c) == c.asked_count >= c.policy.max_questions

CondLowInfo(c) == c.low_info_streak >= c.policy.low_info_streak_max

\* C1: the stop conditions are checked in the order critical_slots_met, max_questions,
\* low_info_streak; the reason reported is the first of them that holds, and the result
\* is (FALSE, None) exactly when none holds.  critical_slots_met is read as the code
\* names it: a non-empty critical-slot list whose slots all have a value.
C1_StopPrecedence ==
    StopEvaluated =>
        LET r == result[1] IN
        /\ CondCritical(call) => r = <<TRUE, Some("critical_slots_met")>>
        /\ (~CondCritical(call) /\ CondMaxQuestions(call))
              => r = <<TRUE, Some("max_questions")>>
        /\ (~CondCritical(call) /\ ~CondMaxQuestions(call) /\ CondLowInfo(call))
              => r = <<TRUE, Some("low_info_streak")>>
        /\ (r = <<FALSE, None>>)
              <=> (~CondCritical(call) /\ ~CondMaxQuestions(call) /\ ~CondLowInfo(call))

\* all three conditions hold at once and the call has returned
C1_Witness ==
    /\ StopEvaluated
    /\ CondCritical(call) /\ CondMaxQuestions(call) /\ CondLowInfo(call)
    /\ result[1][2] = Some("critical_slots_met")

\* C2 as stated: whenever every slot of the critical-slot list has a non-null value the
\* evaluation returns critical_slots_met.
C2_Original ==
    (StopEvaluated /\ EveryCriticalHasValue(call.policy, call.slots))
        => result[1] = <<TRUE, Some("critical_slots_met")>>

\* C2 amended: when the critical-slot list is not empty and every slot in it has a
\* non-null value, the evaluation returns critical_slots_met, whatever the confidences,
\* asked_count and low_info_streak are; with an empty list it never does.
C2_CriticalSlotsStop ==
    StopEvaluated =>
        /\ (CriticalIds(call.policy) # {} /\ EveryCriticalHasValue(call.policy, call.slots))
              => result[1] = <<TRUE, Some("critical_slots_met")>>
        /\ CriticalIds(call.policy) = {} => result[1][2] # Some("critical_slots_met")

\* both critical slots filled at confidence 0, both counters 0, and the call stopped
C2_Witness ==
    /\ StopEvaluated
    /\ Cardinality(CriticalIds(call.policy)) = 2
    /\ \A id \in CriticalIds(call.policy) :
          HasValue(call.slots, id) /\ call.slots[id].confidence = 0
    /\ call.asked_count = 0 /\ call.low_info_streak = 0
    /\ result[1] = <<TRUE, Some("critical_slots_met")>>

----------------------------------------------------------------------------
(* calculate_question_score applied to every bounded input *)

\* the weights _load_scoring_weights falls back to
DefaultWeights ==
    [base_priority |-> 1, missing_slot |-> 30, risk |-> 20, round_fit |-> 15,
     asked_penalty |-> -50, required_slot_bonus |-> 20]

\* weights as an imported configuration can hold them: any numbers, any subset of keys
WeightsPool ==
    {DefaultWeights,
     [base_priority |-> 2, missing_slot |-> 10, risk |-> 5, round_fit |-> 3,
      asked_penalty |-> 0, required_slot_bonus |-> 7],
     [missing_slot |-> 40, asked_penalty |-> 6]}

ScoreQuestionPool ==
    {[question_id |-> "q1", base_priority |-> 50, round_hint |-> Some(1),
      slot_coverage |-> <<"s1", "s2">>, risk_coverage |-> <<"R1">>, enabled |-> TRUE],
     [question_id |-> "q2", base_priority |-> 80, round_hint |-> None,
      slot_coverage |-> <<"s3">>, risk_coverage |-> <<"R1", "R2">>, enabled |-> TRUE],
     [question_id |-> "q3", round_hint |-> Some(2),
      slot_coverage |-> <<"s2", "s9">>, risk_coverage |-> <<>>, enabled |-> TRUE]}

InitScore ==
    /\ call \in [fn : {"calculate_question_score"}, question : ScoreQuestionPool,
                 current_round : 1..2, missing_slots : SUBSET {"s1", "s2", "s3"},
                 active_risk_codes : SUBSET {"R1", "R2"},
                 asked_question_ids : SUBSET {"q1", "q2"},
                 required_slots : SUBSET {"s1", "s3"}, weights : WeightsPool]
    /\ result = <<>>
    /\ IdleSession
    /\ IdleReload

ScoreOf(c, asked) ==
    calculate_question_score(c.question, c.current_round, c.missing_slots,
                             c.active_risk_codes, asked, c.required_slots, c.weights)

\* the asked-id set with the question's own id put in or taken out
ToggledAsked(c) ==
    IF c.question.question_id \in c.asked_question_ids
    THEN c.asked_question_ids \ {c.question.question_id}
    ELSE c.asked_question_ids \cup {c.question.question_id}

EvalScore ==
    /\ call # <<>>
    /\ call.fn = "calculate_question_score"
    /\ result = <<>>
    /\ result' = <<ScoreOf(call, call.asked_question_ids)>>
    /\ UNCHANGED <<brain_config, state, request, response, call, cache, db, procs>>

\* the same question scored again in the same context, its id toggled in the asked set
EvalScoreToggled ==
    /\ call # <<>>
    /\ call.fn = "calculate_question_score"
    /\ Len(result) = 1
    /\ result' = result \o <<ScoreOf(call, ToggledAsked(call))>>
    /\ UNCHANGED <<brain_config, state, request, response, call, cache, db, procs>>

SpecScore == InitScore /\ [][EvalScore \/ EvalScoreToggled]_vars

ScoreEvaluated ==
    /\ call # <<>>
    /\ call.fn = "calculate_question_score"
    /\ result # <<>>

\* the weight in force: the configured one, else the default of the engine
WeightInForce(weights, name) ==
    IF name \in DOMAIN weights THEN weights[name] ELSE DefaultWeights[name]

RECURSIVE SumOver(_, _)
SumOver(S, f) ==
    IF S = {} THEN 0
    ELSE LET x == CHOOSE y \in S : TRUE IN f[x] + SumOver(S \ {x}, f)

CoveredSlots(c) == Range(c.question.slot_coverage)

CoveredRisks(c) == Range(c.question.risk_coverage)

BasePriorityOf(q) == IF "base_priority" \in DOMAIN q THEN q.base_priority ELSE 50

\* the six terms of the score, each counted element by element
SixTerms(c) ==
    LET w(name) == WeightInForce(c.weights, name)
        slotKeys == {"s1", "s2", "s3", "s9"}
        riskCodes == {"R1", "R2"}
    IN  BasePriorityOf(c.question) * w("base_priority")
        + SumOver(slotKeys, [k \in slotKeys |->
              IF k \in CoveredSlots(c) /\ k \in c.missing_slots
              THEN w("missing_slot") ELSE 0])
        + SumOver(slotKeys, [k \in slotKeys |->
              IF k \in CoveredSlots(c) /\ k \in c.required_slots /\ k \in c.missing_slots
              THEN w("required_slot_bonus") ELSE 0])
        + SumOver(riskCodes, [r \in riskCodes |->
              IF r \in CoveredRisks(c) /\ r \in c.active_risk_codes
              THEN w("risk") ELSE 0])
        + (IF c.question.round_hint = Some(c.current_round) THEN w("round_fit") ELSE 0)
        + (IF c.question.question_id \in c.asked_question_ids
           THEN w("asked_penalty") ELSE 0)

\* C9: the score is exactly the sum of the six terms: base priority, missing-slot
\* coverage, required-and-missing coverage, active-risk coverage, round fit, asked penalty.
C9_ScoreIsSumOfSixTerms == ScoreEvaluated => result[1] = SixTerms(call)

\* a question covering a required missing slot, an active risk, in its round, asked
C9_Witness ==
    /\ ScoreEvaluated
    /\ call.question.question_id = "q1"
    /\ call.missing_slots = {"s1", "s2"}
    /\ call.required_slots = {"s1", "s3"}
    /\ call.active_risk_codes = {"R1", "R2"}
    /\ call.current_round = 1
    /\ "q1" \in call.asked_question_ids
    /\ call.weights = DefaultWeights
    /\ result[1] = 50 + 60 + 20 + 20 + 15 - 50

BothScored == ScoreEvaluated /\ Len(result) = 2

ScoreAsked ==
    IF call.question.question_id \in call.asked_question_ids THEN result[1] ELSE result[2]

ScoreUnasked ==
    IF call.question.question_id \in call.asked_question_ids THEN result[2] ELSE result[1]

\* C10 as stated: the asked score is strictly lower than the unasked one, and the two
\* differ by exactly weights.asked_penalty.
C10_Original ==
    BothScored =>
        /\ ScoreAsked < ScoreUnasked
        /\ ScoreAsked - ScoreUnasked = WeightInForce(call.weights, "asked_penalty")

\* C10 amended: the asked score is the unasked score plus weights.asked_penalty exactly;
\* it is strictly lower exactly when asked_penalty is negative.
C10_AskedPenaltyExact ==
    BothScored =>
        /\ ScoreAsked - ScoreUnasked = WeightInForce(call.weights, "asked_penalty")
        /\ (ScoreAsked < ScoreUnasked)
              <=> (WeightInForce(call.weights, "asked_penalty") < 0)

\* the default weights: the asked score is 5.0 below the unasked one
C10_Witness ==
    /\ BothScored
    /\ call.weights = DefaultWeights
    /\ ScoreAsked = ScoreUnasked - 50

----------------------------------------------------------------------------
(* session.py: helpers *)

FilledConfidence == 70

PartialConfidence == 40

\* calculate_slot_status
calculate_slot_status(slots, slot_definitions) ==
    [i \in DOMAIN slot_definitions |->
        LET key == Get(slot_definitions[i], "slot_key", "")
            value == SlotValueOf(slots, key)
            confidence == IF key \in DOMAIN slots THEN slots[key].confidence ELSE 0
        IN  [slot_key |-> key,
             status |-> IF ~IsNone(value) /\ confidence >= FilledConfidence THEN "filled"
                        ELSE IF ~IsNone(value) /\ confidence >= PartialConfidence
                        THEN "partial" ELSE "empty",
             confidence |-> confidence]]

\* slot_fill_level, doubled: 2 for 1.0, 1 for 0.5, 0 for 0.0
SlotFillLevel2(slots, slot_key) ==
    LET value == SlotValueOf(slots, slot_key)
        confidence == IF slot_key \in DOMAIN slots THEN slots[slot_key].confidence ELSE 0
    IN  IF IsNone(value) THEN 0
        ELSE IF confidence >= FilledConfidence THEN 2
        ELSE IF confidence >= PartialConfidence THEN 1
        ELSE 0

RECURSIVE SumFill2(_, _)
SumFill2(slots, defs) ==
    IF defs = <<>> THEN 0
    ELSE SlotFillLevel2(slots, Get(Head(defs), "slot_key", "")) + SumFill2(slots, Tail(defs))

\* Python floats are IEEE-754 doubles.  A double is held as [a, b], standing for the
\* number a + b * 2^-53 with a and b exact fractions [n, d]: a is the value the
\* arithmetic would give without rounding and b the rounding error gathered so far.
RECURSIVE Gcd(_, _)
Gcd(x, y) == IF y = 0 THEN x ELSE Gcd(y, x % y)

Abs(x) == IF x < 0 THEN 0 - x ELSE x

Rat(n, d) == LET g == Gcd(Abs(n), d) IN [n |-> n \div g, d |-> d \div g]

RatAdd(x, y) == Rat(x.n * y.d + y.n * x.d, x.d * y.d)

RatMul(x, y) == Rat(x.n * y.n, x.d * y.d)

RatFloor(x) == x.n \div x.d

RatPow2(e) == IF e >= 0 THEN Rat(2 ^ e, 1) ELSE Rat(1, 2 ^ (0 - e))

\* 2^k modulo m, by repeated squaring
RECURSIVE PowMod(_, _)
PowMod(k, m) ==
    IF k = 0 THEN 1 % m
    ELSE LET h == PowMod(k \div 2, m)
         IN  ((IF k % 2 = 1 THEN 2 ELSE 1) * h * h) % m

\* the exponent e of the binade 2^e <= x < 2^(e+1) a positive double lies in
Binade(x) ==
    LET e0 == CHOOSE e \in -10..10 :
                  /\ RatPow2(e).n * x.a.d <= x.a.n * RatPow2(e).d
                  /\ x.a.n * RatPow2(e + 1).d < RatPow2(e + 1).n * x.a.d
    IN  IF x.a = RatPow2(e0) /\ x.b.n < 0 THEN e0 - 1 ELSE e0

\* round to nearest, ties to even, on the 53-bit grid of the binade: what every
\* float operation does to its exact result
RoundDouble(x) ==
    IF x.a.n = 0 THEN x
    ELSE LET e == Binade(x)
             r2 == (x.a.n * PowMod(52 - e, 2 * x.a.d)) % (2 * x.a.d)
             r == r2 % x.a.d
             s == RatAdd(Rat(r, x.a.d), RatMul(x.b, RatPow2(0 - 1 - e)))
             fl == RatFloor(s)
             fr == RatAdd(s, Rat(0 - fl, 1))
             lowOdd == ((r2 - r) \div x.a.d + fl) % 2 = 1
             up == IF 2 * fr.n > fr.d \/ (2 * fr.n = fr.d /\ lowOdd) THEN 1 ELSE 0
             delta == RatAdd(Rat(fl + up, 1), Rat(0 - s.n, s.d))
         IN  [a |-> x.a, b |-> RatAdd(x.b, RatMul(delta, RatPow2(e + 1)))]

\* a float literal, or an int or a fraction of ints turned into a float
Double(n, d) == RoundDouble([a |-> Rat(n, d), b |-> Rat(0, 1)])

\* x * y and x + y on floats (one factor of every product below is exact)
DoubleMul(x, y) ==
    RoundDouble([a |-> RatMul(x.a, y.a),
                 b |-> RatAdd(RatMul(x.a, y.b), RatMul(x.b, y.a))])

DoubleAdd(x, y) == RoundDouble([a |-> RatAdd(x.a, y.a), b |-> RatAdd(x.b, y.b)])

\* int(x): truncation of a non-negative float
DoubleInt(x) == IF x.a.d = 1 /\ x.b.n < 0 THEN x.a.n - 1 ELSE RatFloor(x.a)

\* (filled / len(bucket)) * weight, or the weight itself for an empty bucket; filled2
\* is twice the sum of the fill levels
BucketProgress(filled2, len, weight) ==
    IF len > 0 THEN DoubleMul(Double(filled2, 2 * len), weight) ELSE weight

\* the largest bucket of slot definitions the percentages are worked out for
MaxBucket == 3

\* int((required_progress + optional_progress) * 100) for every size of the two
\* buckets and every sum of fill levels (doubled), worked out once
ProgressPercentOf ==
    [len_r \in 0..MaxBucket, len_o \in 0..MaxBucket,
     filled2_r \in 0..(2 * MaxBucket), filled2_o \in 0..(2 * MaxBucket) |->
        DoubleInt(DoubleMul(
            DoubleAdd(BucketProgress(filled2_r, len_r, Double(6, 10)),
                      BucketProgress(filled2_o, len_o, Double(4, 10))),
            Double(100, 1)))]

\* calculate_progress_percent
calculate_progress_percent(slots, slot_definitions) ==
    LET required_slots == SelectSeq(slot_definitions, LAMBDA d : Get(d, "is_required", FALSE))
        optional_slots == SelectSeq(slot_definitions, LAMBDA d : ~Get(d, "is_required", FALSE))
    IN  ProgressPercentOf[Len(required_slots), Len(optional_slots),
                          SumFill2(slots, required_slots), SumFill2(slots, optional_slots)]

\* mutant: every transcript's question_id is appended, asked before or not
RECURSIVE AppendAsked_Always(_, _)
AppendAsked_Always(asked, transcripts) ==
    IF transcripts = <<>> THEN asked
    ELSE AppendAsked_Always(Append(asked, Head(transcripts).question_id), Tail(transcripts))

\* the loop appending each transcript's question_id not yet in asked_question_ids
RECURSIVE AppendAsked(_, _)
AppendAsked(asked, transcripts) ==
    IF transcripts = <<>> THEN asked
    ELSE AppendAsked(IF Head(transcripts).question_id \in Range(asked) THEN asked
                     ELSE Append(asked, Head(transcripts).question_id),
                     Tail(transcripts))

MinPreciseQuestions == 6

MaxPreciseQuestions == 12

PreciseProgressTarget == 90

ClarifyConfidence == 60

FallbackMaxQuestions == 8

\* f"AI_FOLLOWUP_{questions_asked}"
AiFollowupId(questions_asked) ==
    <<"AI_FOLLOWUP_0", "AI_FOLLOWUP_1", "AI_FOLLOWUP_2", "AI_FOLLOWUP_3", "AI_FOLLOWUP_4",
      "AI_FOLLOWUP_5", "AI_FOLLOWUP_6", "AI_FOLLOWUP_7", "AI_FOLLOWUP_8", "AI_FOLLOWUP_9",
      "AI_FOLLOWUP_10", "AI_FOLLOWUP_11">>[questions_asked + 1]

\* quick_state as start_session creates it and submit_answer defaults it
InitialQuickState ==
    [asked_count |-> 0, low_info_streak |-> 0, last_question_id |-> None,
     stop_reason |-> None]

\* brain_config.quick_policy as submit_answer reads it.  brain.py defines no such
\* property; it is taken to be what load_quick_policy documents, the policy parsed from
\* brain_config._config_values.
QuickPolicyOf(config) == load_quick_policy(config.config_values)

----------------------------------------------------------------------------
(* The configuration a session runs against, and the inputs of a turn *)

\* cap on quick_state.asked_count: the answers submitted to a quick session
MaxAnswers == 5

\* cap on state.questions_asked_count: the transcripts submitted to a precise session
MaxPreciseAsked == 13

\* cap on the follow-up questions the language model generates in one session
MaxFollowups == 2

SessionSlots ==
    <<[slot_key |-> "s1", label_lt |-> "S1", is_required |-> TRUE],
      [slot_key |-> "s2", label_lt |-> "S2", is_required |-> FALSE]>>

SessionQuestions ==
    <<[question_id |-> "q1", text_lt |-> "K1", base_priority |-> 80, round_hint |-> Some(1),
       slot_coverage |-> <<"s1">>, risk_coverage |-> <<>>, enabled |-> TRUE],
      [question_id |-> "q2", text_lt |-> "K2", base_priority |-> 60, round_hint |-> Some(2),
       slot_coverage |-> <<"s2">>, risk_coverage |-> <<>>, enabled |-> TRUE],
      [question_id |-> "q3", text_lt |-> "", text_en |-> "E3", base_priority |-> 50,
       round_hint |-> None, slot_coverage |-> <<"s1", "s2">>,
       risk_coverage |-> <<"R1">>, enabled |-> TRUE]>>

SessionRiskRules ==
    <<[rule_id |-> "r1", code |-> "R1", severity |-> "high", note_template |-> Some("n1"),
       rule_json |-> [slot |-> "s2", contains_any |-> <<<<"b">>>>], enabled |-> TRUE]>>

SessionSkipRules ==
    <<[rule_id |-> "k1", condition_slot |-> "s1", condition_type |-> "contains_any",
       condition_values |-> <<<<"A">>>>, skip_question_ids |-> <<"q1">>, enabled |-> TRUE],
      [rule_id |-> "k2", condition_slot |-> "s2", condition_type |-> "contains_any",
       condition_values |-> <<<<"b">>>>, skip_question_ids |-> <<"q2", "q3">>,
       enabled |-> TRUE]>>

\* the loaded fields of brain_config for the stored config_values cv
SessionConfig(cv) ==
    [slots |-> SessionSlots, questions |-> SessionQuestions,
     risk_rules |-> SessionRiskRules, skip_rules |-> SessionSkipRules,
     scoring_weights |-> DefaultWeights, config_values |-> cv]

ShortText == [lead |-> 0, body |-> 14, trail |-> 0]

PaddedText == [lead |-> 1, body |-> 14, trail |-> 1]

LongText == [lead |-> 0, body |-> 15, trail |-> 0]

EmptyText == [lead |-> 0, body |-> 0, trail |-> 0]

\* request.transcripts: none, one transcript (for the pending question or for q2), two
TranscriptsPool(pending) ==
    {<<>>}
    \cup {<<[question_id |-> q, text |-> t]>> : q \in pending, t \in {PaddedText, LongText}}
    \cup {<<[question_id |-> "q2", text |-> LongText]>>}
    \cup {<<[question_id |-> "q1", text |-> LongText],
            [question_id |-> "q3", text |-> ShortText]>>}

\* request.transcripts of a precise session, where the answer text decides nothing:
\* one transcript for the pending question, or two
PreciseTranscriptsPool(pending) ==
    {<<[question_id |-> q, text |-> LongText]>> : q \in pending}
    \cup {<<[question_id |-> "q1", text |-> LongText],
            [question_id |-> "q3", text |-> ShortText]>>}

\* extraction_result.updated_slots
UpdatedSlotsPool ==
    {EmptyDict,
     [s1 |-> [value |-> Some(ValueA), confidence |-> 90]],
     [s2 |-> [value |-> Some(ValueB), confidence |-> 50]],
     [s2 |-> [value |-> Some(ValueB), confidence |-> 90]],
     [zz |-> [value |-> Some(ValueA), confidence |-> 90]]}

\* in a precise session s2 is also filled with a value no skip rule matches
PreciseUpdatedSlotsPool ==
    (UpdatedSlotsPool \ {[zz |-> [value |-> Some(ValueA), confidence |-> 90]]})
    \cup {[s2 |-> [value |-> Some(ValueA), confidence |-> 90]]}

NoSession == <<>>

----------------------------------------------------------------------------
(* session.py: start_session and submit_answer *)

\* a quick session is requested, under each stored configuration
Init ==
    /\ \E cv \in ConfigValuesPool \ {[report_footer |-> "footer"]} :
          brain_config = SessionConfig(cv)
    /\ request = [interview_mode |-> "quick"]
    /\ state = NoSession
    /\ response = <<>>
    /\ IdleCall
    /\ IdleReload

\* start_session: the state row inserted and the first question selected
StartSession ==
    /\ state = NoSession
    /\ "interview_mode" \in DOMAIN request
    /\ LET interview_mode == request.interview_mode
           initial_slots == [k \in {Get(brain_config.slots[i], "slot_key", "") :
                                       i \in DOMAIN brain_config.slots}
                                |-> [value |-> None, confidence |-> 0]]
           questions == select_next_questions(brain_config.questions, initial_slots, <<>>,
                            <<>>, 1, brain_config.scoring_weights, brain_config.slots,
                            brain_config.skip_rules, 1, ConfidenceThreshold)
           initial_state ==
               [interview_mode |-> interview_mode, round |-> 1,
                history |-> Len(questions), slots |-> initial_slots, risk_flags |-> <<>>,
                asked_question_ids |-> <<>>, next_questions |-> questions,
                questions_asked_count |-> 0]
       IN  /\ state' = IF interview_mode = "quick"
                       THEN Merge(initial_state, [quick_state |-> InitialQuickState])
                       ELSE initial_state
           /\ response' = [kind |-> "start", questions |-> questions,
                           interview_mode |-> interview_mode]
    /\ UNCHANGED <<brain_config, request, call, result, cache, db, procs>>

\* mutant: five answered questions are enough to complete
PreciseComplete_MinFive(questions_asked, progress_percent) ==
    /\ questions_asked >= MinPreciseQuestions - 1
    /\ \/ progress_percent >= PreciseProgressTarget
       \/ questions_asked >= MaxPreciseQuestions

\* is_complete of the precise branch, before a next question is looked for
PreciseComplete(questions_asked, progress_percent) ==
    /\ questions_asked >= MinPreciseQuestions
    /\ \/ progress_percent >= PreciseProgressTarget
       \/ questions_asked >= MaxPreciseQuestions

\* state["next_questions"]: a dict of id, text and round_hint for each question
StoredQuestions(next_questions) ==
    [i \in DOMAIN next_questions |->
        [id |-> next_questions[i].id, text |-> next_questions[i].text,
         round_hint |-> next_questions[i].round_hint]]

\* mutant: the turn is not completed when the scoring engine has no question left
PreciseFallback_NotCompleted(st, next_questions, progress_percent) ==
    <<FALSE, next_questions, st.history + Len(next_questions), None,
      progress_percent, StoredQuestions(next_questions)>>

\* the precise branch once the scoring engine has answered: a turn is
\* <<is_complete, next_questions, history, quick_state, progress_percent,
\*   state["next_questions"]>>
PreciseFallback(st, next_questions, progress_percent) ==
    <<next_questions = <<>>, next_questions, st.history + Len(next_questions), None,
      progress_percent, StoredQuestions(next_questions)>>

\* the precise branch of submit_answer
PreciseTurn(ai_followup, st, slots, risk_flags, progress_percent) ==
    IF PreciseComplete(Get(st, "questions_asked_count", 0), progress_percent)
    THEN <<TRUE, <<>>, st.history, None, progress_percent, <<>>>>
    ELSE IF st.history > 0 /\ ai_followup
    THEN <<FALSE, <<[id |-> AiFollowupId(Get(st, "questions_asked_count", 0)),
                     text |-> "ai", round_hint |-> None]>>,
           st.history + 1, None, progress_percent,
           <<[id |-> AiFollowupId(Get(st, "questions_asked_count", 0)),
              text |-> "ai", round_hint |-> None]>>>>
    ELSE PreciseFallback(st,
             select_next_questions(brain_config.questions, slots, risk_flags,
                 st.asked_question_ids, st.round, brain_config.scoring_weights,
                 brain_config.slots, brain_config.skip_rules, 1, ConfidenceThreshold),
             progress_percent)

\* low_info_streak after an answer
NextStreak(quick_state, slots_updated, answer_text) ==
    IF slots_updated = {} \/ TextLen(TextStrip(answer_text)) < MinTextLength
    THEN Get(quick_state, "low_info_streak", 0) + 1
    ELSE 0

\* the quick branch with a policy, the session not stopped, once next_q is selected
\* mutant: without a next question the interview is complete but no reason is set
QuickAsk_NoReason(st, quick_state, next_q, progress_percent) ==
    IF ~IsNone(next_q)
    THEN <<FALSE, <<Val(next_q)>>, st.history + 1,
           Some([quick_state EXCEPT !.last_question_id = Some(Val(next_q).id)]),
           progress_percent,
           <<[id |-> Val(next_q).id, text |-> Val(next_q).text,
              round_hint |-> Val(next_q).round_hint]>>>>
    ELSE <<TRUE, <<>>, st.history, Some(quick_state), progress_percent, <<>>>>

QuickAsk(st, quick_state, next_q, progress_percent) ==
    IF ~IsNone(next_q)
    THEN <<FALSE, <<Val(next_q)>>, st.history + 1,
           Some([quick_state EXCEPT !.last_question_id = Some(Val(next_q).id)]),
           progress_percent,
           <<[id |-> Val(next_q).id, text |-> Val(next_q).text,
              round_hint |-> Val(next_q).round_hint]>>>>
    ELSE <<TRUE, <<>>, st.history,
           Some([quick_state EXCEPT !.stop_reason = Some("no_questions")]),
           progress_percent, <<>>>>

\* the quick branch with a policy, once the stop conditions are evaluated
QuickWithPolicy(st, slots, risk_flags, quick_state, quick_policy, stop, progress_percent) ==
    IF stop[1]
    THEN <<TRUE, <<>>, st.history, Some([quick_state EXCEPT !.stop_reason = stop[2]]),
           progress_percent, <<>>>>
    ELSE QuickAsk(st, quick_state,
             select_next_question_quick(brain_config.questions, slots, slots, risk_flags,
                 st.asked_question_ids, brain_config.scoring_weights, brain_config.slots,
                 brain_config.skip_rules, quick_policy, quick_state.last_question_id),
             progress_percent)

\* the quick branch without a policy, once the next question is selected
QuickFallbackAsk(st, quick_state, next_questions, progress_percent) ==
    IF next_questions # <<>>
    THEN <<FALSE, next_questions, st.history + Len(next_questions),
           Some([quick_state EXCEPT !.last_question_id = Some(next_questions[1].id)]),
           progress_percent, StoredQuestions(next_questions)>>
    ELSE <<TRUE, <<>>, st.history, Some(quick_state), progress_percent, <<>>>>

\* the quick branch of submit_answer from "Load quick policy" on
QuickDecide(st, slots, risk_flags, quick_state, quick_policy, progress_percent) ==
    IF ~IsNone(quick_policy)
    THEN QuickWithPolicy(st, slots, risk_flags, quick_state, Val(quick_policy),
             evaluate_stop_conditions(Val(quick_policy), slots, quick_state.asked_count,
                 quick_state.low_info_streak),
             calculate_quick_progress(Val(quick_policy), slots))
    ELSE IF quick_state.asked_count >= FallbackMaxQuestions
    THEN <<TRUE, <<>>, st.history, Some(quick_state), progress_percent, <<>>>>
    ELSE QuickFallbackAsk(st, quick_state,
             select_next_questions(brain_config.questions, slots, risk_flags,
                 st.asked_question_ids, 1, brain_config.scoring_weights,
                 brain_config.slots, brain_config.skip_rules, 1, ConfidenceThreshold),
             progress_percent)

\* the quick_state of the session, with the counters updated for this answer
CountAnswer(quick_state, slots_updated, transcripts) ==
    [quick_state EXCEPT
        !.low_info_streak =
            NextStreak(quick_state, slots_updated,
                IF transcripts # <<>> THEN transcripts[1].text ELSE EmptyText),
        !.asked_count = Get(quick_state, "asked_count", 0) + 1]

\* the quick branch of submit_answer
QuickTurn(req, st, slots, risk_flags, slots_updated, progress_percent) ==
    QuickDecide(st, slots, risk_flags,
        CountAnswer(Get(st, "quick_state", InitialQuickState), slots_updated,
                    req.transcripts),
        QuickPolicyOf(brain_config), progress_percent)

\* the end of submit_answer: the state row written and the response returned
Respond(st, slots_updated, risk_flags, slot_status, clarification, turn) ==
    /\ state' = Merge([st EXCEPT !.risk_flags = risk_flags, !.next_questions = turn[6],
                                 !.history = turn[3]],
                      IF IsNone(turn[4]) THEN EmptyDict
                      ELSE [quick_state |-> Val(turn[4])])
    /\ response' = [kind |-> "answer", slots_updated |-> slots_updated,
                    risk_flags |-> risk_flags, next_questions |-> turn[2],
                    is_complete |-> turn[1], clarification_question |-> clarification,
                    slot_status |-> slot_status, progress_percent |-> turn[5]]

\* is a clarification question asked for: precise mode, an extracted slot below 0.6
NeedsClarification(interview_mode, updated_slots, slots) ==
    /\ interview_mode = "precise"
    /\ \E k \in DOMAIN updated_slots :
          k \in DOMAIN slots /\ slots[k].confidence < ClarifyConfidence

\* submit_answer from the risk evaluation on
Evaluate(req, ai_followup, st, slots_updated, slots, risk_flags, progress_percent) ==
    Respond(st, slots_updated, risk_flags,
        calculate_slot_status(slots, brain_config.slots),
        NeedsClarification(st.interview_mode, req.updated_slots, slots),
        IF st.interview_mode = "precise"
        THEN PreciseTurn(ai_followup, st, slots, risk_flags, progress_percent)
        ELSE QuickTurn(req, st, slots, risk_flags, slots_updated, progress_percent))

\* submit_answer once the extraction has updated the slots
Extracted(req, ai_followup, st, slots_updated, slots) ==
    Evaluate(req, ai_followup, [st EXCEPT !.slots = slots], slots_updated, slots,
        evaluate_risk_rules(slots, brain_config.risk_rules),
        calculate_progress_percent(slots, brain_config.slots))

\* submit_answer from the row it has read (loaded) to the row written and the response
SubmitAnswerFrom(loaded, req, ai_followup) ==
    Extracted(req, ai_followup,
        [loaded EXCEPT
            !.history = @ + Len(req.transcripts),
            !.asked_question_ids = AppendAsked(@, req.transcripts),
            !.questions_asked_count = @ + Len(req.transcripts)],
        (DOMAIN req.updated_slots) \cap (DOMAIN loaded.slots),
        [k \in DOMAIN loaded.slots |->
            IF k \in DOMAIN req.updated_slots THEN req.updated_slots[k]
            ELSE loaded.slots[k]])

\* submit_answer with nothing between the session row read and the row written
SubmitAnswerOf(req, ai_followup) == SubmitAnswerFrom(state, req, ai_followup)

PendingIds == {state.next_questions[i].id : i \in DOMAIN state.next_questions}

\* the generated follow-up questions the session has been given so far
FollowupsSoFar ==
    Cardinality({n \in 0..(MaxPreciseQuestions - 1) :
        AiFollowupId(n) \in PendingIds \cup Range(state.asked_question_ids)})

\* a quick-mode answer: the language model is asked for the extraction only
SubmitAnswerQuick ==
    /\ state # NoSession
    /\ state.interview_mode = "quick"
    /\ state.quick_state.asked_count < MaxAnswers
    /\ \E transcripts \in TranscriptsPool(PendingIds), updated_slots \in UpdatedSlotsPool :
          /\ request' = [transcripts |-> transcripts, updated_slots |-> updated_slots]
          /\ SubmitAnswerOf(request', FALSE)
    /\ UNCHANGED <<brain_config, call, result, cache, db, procs>>

\* a precise-mode answer: the follow-up generator returns a question or None
SubmitAnswerPrecise ==
    /\ state # NoSession
    /\ state.interview_mode = "precise"
    /\ state.questions_asked_count < MaxPreciseAsked
    /\ \E transcripts \in PreciseTranscriptsPool(PendingIds),
          updated_slots \in PreciseUpdatedSlotsPool,
          ai_followup \in IF FollowupsSoFar < MaxFollowups THEN BOOLEAN ELSE {FALSE} :
          /\ request' = [transcripts |-> transcripts, updated_slots |-> updated_slots]
          /\ SubmitAnswerOf(request', ai_followup)
    /\ UNCHANGED <<brain_config, call, result, cache, db, procs>>

Next == StartSession \/ SubmitAnswerQuick

Spec == Init /\ [][Next]_vars

\* a precise session is requested
InitPrecise ==
    /\ brain_config = SessionConfig([report_footer |-> "footer"])
    /\ request = [interview_mode |-> "precise"]
    /\ state = NoSession
    /\ response = <<>>
    /\ IdleCall
    /\ IdleReload

NextPrecise == StartSession \/ SubmitAnswerPrecise

SpecPrecise == InitPrecise /\ [][NextPrecise]_vars

----------------------------------------------------------------------------
(* Quick sessions: the low-information streak, the question budget, stopping *)

\* a step taken by submit_answer on a quick session
QuickAnswerStep == state # NoSession /\ state' # state

\* the policy in force for the session, or None
SessionPolicy == QuickPolicyOf(brain_config)

\* the text of the submitted answer, trimmed, is shorter than 15 characters
ShortAnswer(req) ==
    \/ req.transcripts = <<>>
    \/ req.transcripts[1].text.body < 15

\* some critical slot of the policy has no value in the slots
CriticalUnmet(policy, slots) == \E id \in CriticalIds(policy) : ~HasValue(slots, id)

\* the scenario of C3: a session with no stop reason yet, low_info_streak_max = 2, a
\* short answer, after which a critical slot is still empty and the budget not used up
StagnationStep(streak_before) ==
    /\ QuickAnswerStep
    /\ ~IsNone(SessionPolicy)
    /\ Val(SessionPolicy).low_info_streak_max = 2
    /\ state.quick_state.stop_reason = None
    /\ state.quick_state.low_info_streak = streak_before
    /\ ShortAnswer(request')
    /\ CriticalUnmet(Val(SessionPolicy), state'.slots)
    /\ state'.quick_state.asked_count < Val(SessionPolicy).max_questions

\* C3 as stated: after the second consecutive short answer the session is still asking.
C3_Original ==
    [][StagnationStep(1) => ~response'.is_complete]_vars

\* C3 amended: with low_info_streak_max = 2, starting from a streak of 0, the first
\* short answer does not stop the session for stagnation (it keeps asking unless no
\* question is left) and the second short answer stops it with stop_reason
\* low_info_streak; there is no third.
C3_ShortAnswersStop ==
    [][/\ StagnationStep(0) =>
             /\ state'.quick_state.low_info_streak = 1
             /\ state'.quick_state.stop_reason \in {None, Some("no_questions")}
             /\ response'.is_complete <=> state'.quick_state.stop_reason # None
       /\ StagnationStep(1) =>
             /\ state'.quick_state.low_info_streak = 2
             /\ state'.quick_state.stop_reason = Some("low_info_streak")
             /\ response'.is_complete /\ response'.next_questions = <<>>]_vars

\* the second of two short answers, each with a slot extracted, has stopped the session
C3_Witness ==
    /\ state # NoSession
    /\ ~IsNone(SessionPolicy)
    /\ Val(SessionPolicy).low_info_streak_max = 2
    /\ state.quick_state.asked_count = 2
    /\ state.quick_state.low_info_streak = 2
    /\ state.quick_state.stop_reason = Some("low_info_streak")
    /\ request.transcripts # <<>>
    /\ request.updated_slots # EmptyDict
    /\ response.is_complete

\* no slot has a different value after the step than before it
NoSlotValueChanged == \A k \in DOMAIN state.slots : state'.slots[k].value = state.slots[k].value

\* C4: an answer is low-information exactly when no slot value changed or the trimmed
\* text is shorter than 15 characters; a low-information answer adds one to
\* low_info_streak and any other answer resets it to 0.
C4_LowInfoStreak ==
    [][QuickAnswerStep =>
          state'.quick_state.low_info_streak =
              IF NoSlotValueChanged \/ ShortAnswer(request')
              THEN state.quick_state.low_info_streak + 1
              ELSE 0]_vars

\* C5: with a policy configured, asked_count grows by exactly one per submitted answer,
\* and the response is complete, with no next question, whenever asked_count has
\* reached max_questions.
C5_TerminatesWithinBudget ==
    [][(QuickAnswerStep /\ ~IsNone(SessionPolicy)) =>
          /\ state'.quick_state.asked_count = state.quick_state.asked_count + 1
          /\ state'.quick_state.asked_count >= Val(SessionPolicy).max_questions =>
                /\ response'.is_complete
                /\ response'.next_questions = <<>>
                /\ state'.next_questions = <<>>]_vars

\* the budget was used up by an answer carrying two transcripts, with a critical slot
\* still empty and the streak below its maximum
C5_Witness ==
    /\ state # NoSession
    /\ ~IsNone(SessionPolicy)
    /\ state.quick_state.asked_count = Val(SessionPolicy).max_questions
    /\ state.quick_state.stop_reason = Some("max_questions")
    /\ Len(request.transcripts) = 2
    /\ response.is_complete

\* C8: once a turn has set a stop reason, no later submit_answer on that session
\* returns is_complete = false with a next question, and stop_reason is null whenever
\* the response is not complete.
C8_StoppedIsTerminal ==
    [][QuickAnswerStep =>
          /\ state.quick_state.stop_reason # None => response'.is_complete
          /\ ~response'.is_complete => state'.quick_state.stop_reason = None]_vars

----------------------------------------------------------------------------
(* Precise sessions: when an answer turn completes the interview *)

\* a step taken by submit_answer on a precise session
PreciseAnswerStep ==
    /\ state # NoSession
    /\ state.interview_mode = "precise"
    /\ state' # state

\* what the scoring engine returns for the session as the step leaves it
EngineCandidates ==
    select_next_questions(brain_config.questions, state'.slots, state'.risk_flags,
        state'.asked_question_ids, state'.round, brain_config.scoring_weights,
        brain_config.slots, brain_config.skip_rules, 1, ConfidenceThreshold)

\* asked_count >= 6 and (progress_percent >= 90 or asked_count >= 12), after the step
CompletionRule ==
    /\ state'.questions_asked_count >= 6
    /\ \/ response'.progress_percent >= 90
       \/ state'.questions_asked_count >= 12

\* the step hands out a question generated by the language model
FollowupGenerated ==
    /\ response'.next_questions # <<>>
    /\ response'.next_questions[1].id \notin
           {brain_config.questions[i].question_id : i \in DOMAIN brain_config.questions}

\* C6 as stated: the turn is complete exactly when the completion rule holds or the
\* scoring engine has no candidate question.
C6_Original ==
    [][PreciseAnswerStep =>
          (response'.is_complete <=> (CompletionRule \/ EngineCandidates = <<>>))]_vars

\* C6 amended: the turn is complete exactly when asked_count >= 6 and (progress >= 90
\* or asked_count >= 12), or when the language model generated no follow-up question
\* and the scoring engine returned no candidate; a generated follow-up keeps the
\* session asking even if the engine has no candidate.  At asked_count = 5 with
\* progress 100 and a question handed out the turn is not complete; at asked_count = 6
\* with progress 100 it is.
C6_PreciseCompletion ==
    [][PreciseAnswerStep =>
          /\ response'.is_complete <=>
                \/ CompletionRule
                \/ ~FollowupGenerated /\ EngineCandidates = <<>>
          /\ (/\ state'.questions_asked_count = 5
              /\ response'.progress_percent = 100
              /\ EngineCandidates # <<>>) => ~response'.is_complete
          /\ (state'.questions_asked_count = 6 /\ response'.progress_percent = 100)
                => response'.is_complete]_vars

\* six questions answered, progress 100, a candidate still available: complete
C6_Witness ==
    /\ state # NoSession
    /\ state.interview_mode = "precise"
    /\ state.questions_asked_count = 6
    /\ response.kind = "answer"
    /\ response.progress_percent = 100
    /\ response.is_complete
    /\ select_next_questions(brain_config.questions, state.slots, state.risk_flags,
           state.asked_question_ids, state.round, brain_config.scoring_weights,
           brain_config.slots, brain_config.skip_rules, 1, ConfidenceThreshold) # <<>>

----------------------------------------------------------------------------
(* brain.py: the shared BrainConfigLoader under concurrent requests.  What the
   database holds is a version number; a cached field holds the version it was
   loaded at, or 0 for None (and for the empty config_values dict). *)

\* cap on the configuration versions the admin writes
MaxVersion == 2

\* the cached fields, in the order load_all fills them
ConfigFields ==
    <<"slots", "questions", "risk_rules", "skip_rules", "scoring_weights", "config_values">>

Requests == {"r1", "r2"}

\* r1 is a quick session, r2 a precise one
RequestMode(p) == IF p = "r1" THEN "quick" ELSE "precise"

\* the first field at or after index i that load_all has to load, or 7
NextToLoad(c, i) ==
    IF \E j \in i..Len(ConfigFields) : c[ConfigFields[j]] = 0
    THEN CHOOSE j \in i..Len(ConfigFields) :
             /\ c[ConfigFields[j]] = 0
             /\ \A k \in i..(j - 1) : c[ConfigFields[k]] # 0
    ELSE Len(ConfigFields) + 1

\* load_all run from field i up to its next await, or to its end
load_all(p, c, i) ==
    LET j == NextToLoad(c, i) IN
    IF j <= Len(ConfigFields)
    THEN [procs EXCEPT ![p].pc = "query", ![p].field = j]
    ELSE [procs EXCEPT ![p].pc = "loaded", ![p].field = 0]

\* invalidate_cache
invalidate_cache(c) == [f \in DOMAIN c |-> 0]

\* what the properties of brain_config return for the fields in fs
ReadFields(fs) == {<<f, cache[f]>> : f \in fs}

InitReload ==
    /\ db = 1
    /\ cache = [f \in Range(ConfigFields) |-> 0]
    /\ procs = [p \in Requests \cup {"admin"} |->
                   IF p = "admin" THEN [pc |-> "idle"]
                   ELSE [pc |-> "idle", field |-> 0, seen |-> {}]]
    /\ IdleSession
    /\ IdleCall

\* submit_answer reaches "await brain_config.load_all(db)"
BeginLoad(p) ==
    /\ procs[p].pc = "idle"
    /\ procs' = load_all(p, cache, 1)
    /\ UNCHANGED <<cache, db, brain_config, state, request, response, call, result>>

\* the query of the awaited _load_* returns: the field is assigned and load_all goes on
QueryReturn(p) ==
    /\ procs[p].pc = "query"
    /\ cache' = [cache EXCEPT ![ConfigFields[procs[p].field]] = db]
    /\ procs' = load_all(p, cache', procs[p].field + 1)
    /\ UNCHANGED <<db, brain_config, state, request, response, call, result>>

\* extract_slots has returned: the risk rules and slots are read, and in a quick
\* session the policy, questions, weights and skip rules as well
ReadConfig(p) ==
    /\ procs[p].pc = "loaded"
    /\ procs' = IF RequestMode(p) = "quick"
                THEN [procs EXCEPT ![p].pc = "done",
                                   ![p].seen = ReadFields(Range(ConfigFields))]
                ELSE [procs EXCEPT ![p].pc = "followup",
                                   ![p].seen = ReadFields({"risk_rules", "slots"})]
    /\ UNCHANGED <<cache, db, brain_config, state, request, response, call, result>>

\* the follow-up generator has returned None: select_next_questions reads the rest
ReadRest(p) ==
    /\ procs[p].pc = "followup"
    /\ procs' = [procs EXCEPT
                    ![p].pc = "done",
                    ![p].seen = @ \cup ReadFields({"questions", "scoring_weights",
                                                   "slots", "skip_rules"})]
    /\ UNCHANGED <<cache, db, brain_config, state, request, response, call, result>>

\* the response is returned; the next request of the session may start
Finish(p) ==
    /\ procs[p].pc = "done"
    /\ procs' = [procs EXCEPT ![p].pc = "idle", ![p].seen = {}]
    /\ UNCHANGED <<cache, db, brain_config, state, request, response, call, result>>

\* an admin endpoint writes the configuration tables
AdminEdit ==
    /\ procs["admin"].pc = "idle"
    /\ db < MaxVersion
    /\ db' = db + 1
    /\ procs' = [procs EXCEPT !["admin"].pc = "written"]
    /\ UNCHANGED <<cache, brain_config, state, request, response, call, result>>

\* ... and then calls brain_config.invalidate_cache()
AdminInvalidate ==
    /\ procs["admin"].pc = "written"
    /\ cache' = invalidate_cache(cache)
    /\ procs' = [procs EXCEPT !["admin"].pc = "idle"]
    /\ UNCHANGED <<db, brain_config, state, request, response, call, result>>

NextReload ==
    \/ \E p \in Requests :
          BeginLoad(p) \/ QueryReturn(p) \/ ReadConfig(p) \/ ReadRest(p) \/ Finish(p)
    \/ AdminEdit
    \/ AdminInvalidate

SpecReload == InitReload /\ [][NextReload]_vars

\* C7: from the moment a submit_answer request loads the configuration until it
\* finishes, every part it reads belongs to one configuration version: no mix of old
\* and new parts, and no emptied part.
C7_ConsistentSnapshot ==
    procs # <<>> =>
        \A p \in Requests :
            procs[p].seen # {} =>
                \E v \in 1..(MaxVersion + 1) : \A e \in procs[p].seen : e[2] = v

-----------------------------------------------------------------------------
(* select_next_questions applied to bounded inputs *)

MaxSelect == 3

\* a null value can come with any confidence: SlotValue(value=None, confidence=c)
SelectSlotMapPool ==
    [{"s1", "s2"} -> SlotValuePool \cup {[value |-> None, confidence |-> 90]}]
        \cup [{"s1"} -> SlotValuePool \cup {[value |-> None, confidence |-> 90]}]

\* q1 and q5 always tie unless q1 was asked, q2 ties with them whenever s1 and s2 are
\* both missing or both known, q3 is disabled, q4 has no enabled key
SelectQuestions ==
    <<[question_id |-> "q1", text_lt |-> "K1", base_priority |-> 50, round_hint |-> None,
       slot_coverage |-> <<"s1">>, risk_coverage |-> <<>>, enabled |-> TRUE],
      [question_id |-> "q2", text_lt |-> "K2", base_priority |-> 50, round_hint |-> None,
       slot_coverage |-> <<"s2">>, risk_coverage |-> <<>>, enabled |-> TRUE],
      [question_id |-> "q3", text_lt |-> "K3", base_priority |-> 90, round_hint |-> Some(1),
       slot_coverage |-> <<"s1", "s2">>, risk_coverage |-> <<"R1">>, enabled |-> FALSE],
      [question_id |-> "q4", text_lt |-> "", text_en |-> "E4", base_priority |-> 20,
       round_hint |-> Some(2), slot_coverage |-> <<>>, risk_coverage |-> <<"R1">>],
      [question_id |-> "q5", text_lt |-> "K5", base_priority |-> 50, round_hint |-> None,
       slot_coverage |-> <<"s1">>, risk_coverage |-> <<>>, enabled |-> TRUE]>>

SelectQuestionsPool ==
    {SelectQuestions,
     [i \in 1..5 |-> SelectQuestions[6 - i]],
     SubSeq(SelectQuestions, 1, 2),
     SubSeq(SelectQuestions, 2, 3),
     <<SelectQuestions[1],
       [SelectQuestions[2] EXCEPT !.base_priority = 40, !.round_hint = Some(1)]>>,
     <<>>}

InitSelect ==
    /\ call \in [fn : {"select_next_questions"}, questions : SelectQuestionsPool,
                 slots : SelectSlotMapPool,
                 risk_flags : {<<>>, <<[code |-> "R1", severity |-> "high",
                                        note |-> None, evidence |-> <<"s2">>]>>},
                 asked_question_ids : {<<>>, <<"q1">>},
                 current_round : 1..2, weights : {DefaultWeights},
                 slot_definitions : {SessionSlots},
                 skip_rules : {<<>>, SessionSkipRules},
                 count : 0..MaxSelect,
                 confidence_threshold : {ConfidenceThreshold}]
    /\ result = <<>>
    /\ IdleSession
    /\ IdleReload

\* select_next_questions up to the end of its missing_slots loop
SelectMissing ==
    /\ call # <<>>
    /\ call.fn = "select_next_questions"
    /\ result = <<>>
    /\ result' = <<MissingSlots(call.slot_definitions, call.slots,
                                call.confidence_threshold)>>
    /\ UNCHANGED <<brain_config, state, request, response, call, cache, db, procs>>

\* mutant: the question list handed in is sorted in place (questions.sort) instead
\* of the function's own scored_questions list
SelectReturn_SortsArgument ==
    /\ call # <<>>
    /\ call.fn = "select_next_questions"
    /\ Len(result) = 1
    /\ result' = result \o
          <<select_next_questions(call.questions, call.slots, call.risk_flags,
                call.asked_question_ids, call.current_round, call.weights,
                call.slot_definitions, call.skip_rules, call.count,
                call.confidence_threshold)>>
    /\ call' = [call EXCEPT !.questions =
                   [i \in DOMAIN call.questions |->
                       SortDesc([j \in DOMAIN call.questions |->
                                    <<Get(call.questions[j], "base_priority", 50),
                                      call.questions[j]>>])[i][2]]]
    /\ UNCHANGED <<brain_config, state, request, response, cache, db, procs>>

\* select_next_questions from there to its return
SelectReturn ==
    /\ call # <<>>
    /\ call.fn = "select_next_questions"
    /\ Len(result) = 1
    /\ result' = result \o
          <<select_next_questions(call.questions, call.slots, call.risk_flags,
                call.asked_question_ids, call.current_round, call.weights,
                call.slot_definitions, call.skip_rules, call.count,
                call.confidence_threshold)>>
    /\ UNCHANGED <<brain_config, state, request, response, call, cache, db, procs>>

SpecSelect == InitSelect /\ [][SelectMissing \/ SelectReturn]_vars

SelectReturned ==
    call # <<>> /\ call.fn = "select_next_questions" /\ Len(result) = 2

\* the positions of the questions that are neither disabled nor skipped
SelectEligible(c) ==
    {i \in DOMAIN c.questions :
        /\ Get(c.questions[i], "enabled", TRUE)
        /\ Get(c.questions[i], "question_id", "") \notin
              evaluate_skip_rules(c.skip_rules, c.slots)}

SelectScore(c, i) ==
    calculate_question_score(c.questions[i], c.current_round,
        MissingSlots(c.slot_definitions, c.slots, c.confidence_threshold),
        ActiveRiskCodes(c.risk_flags), Range(c.asked_question_ids),
        RequiredSlots(c.slot_definitions), c.weights)

\* position a comes before position b: higher score, or equal score and earlier input
SelectBefore(c, a, b) ==
    \/ SelectScore(c, a) > SelectScore(c, b)
    \/ SelectScore(c, a) = SelectScore(c, b) /\ a < b

\* 1 + the number of eligible positions that come before e
SelectRank(c, e) ==
    1 + Cardinality({a \in SelectEligible(c) : SelectBefore(c, a, e)})

SelectExpected(c) ==
    [r \in 1..(IF Cardinality(SelectEligible(c)) < c.count
               THEN Cardinality(SelectEligible(c)) ELSE c.count) |->
        ToQuestion(c.questions[CHOOSE e \in SelectEligible(c) : SelectRank(c, e) = r])]

\* C11: select_next_questions returns the first k questions of the list obtained by
\* removing the disabled questions and the questions in the skip filter's exclusion
\* set and sorting the rest by score, highest first, ties kept in input order; no
\* disabled or skipped question is returned, and at most k questions are returned.
C11_SelectTopK ==
    SelectReturned =>
        /\ result[2] = SelectExpected(call)
        /\ Len(result[2]) <= call.count
        /\ \A r \in DOMAIN result[2] : \A i \in DOMAIN call.questions :
              Get(call.questions[i], "question_id", "") = result[2][r].id =>
                  i \in SelectEligible(call)

\* a disabled question, a skipped one, and two eligible ones with the highest score
\* of which only the one earlier in the input fits in the answer
C11_Witness ==
    /\ SelectReturned
    /\ call.questions = SelectQuestions
    /\ "q2" \in evaluate_skip_rules(call.skip_rules, call.slots)
    /\ SelectEligible(call) = {1, 4, 5}
    /\ SelectScore(call, 1) = SelectScore(call, 5)
    /\ SelectScore(call, 1) > SelectScore(call, 4)
    /\ call.count = 1
    /\ result[2] = <<ToQuestion(SelectQuestions[1])>>

SelectMissingComputed ==
    call # <<>> /\ call.fn = "select_next_questions" /\ Len(result) >= 1

DefinedSlotKeys(c) ==
    {SlotDefKey(c.slot_definitions[i]) : i \in DOMAIN c.slot_definitions} \ {""}

SlotHasNoValue(c, key) == key \notin DOMAIN c.slots \/ IsNone(c.slots[key].value)

\* C12: select_next_questions counts a defined slot as missing exactly when the slot
\* has no value or its confidence is below confidence_threshold: a slot whose value
\* is null is missing whatever its confidence, and a slot with a value and a
\* confidence at or above the threshold is not missing.
C12_MissingSlot ==
    SelectMissingComputed =>
        \A key \in DefinedSlotKeys(call) :
            key \in result[1] <=>
                \/ SlotHasNoValue(call, key)
                \/ call.slots[key].confidence < call.confidence_threshold

-----------------------------------------------------------------------------
(* evaluate_risk_rules and _evaluate_condition applied to bounded inputs *)

ValuePadded == <<" ", "a", " ">>

\* slot maps over s1, s2, and one without s2; the confidence plays no part here
RiskSlotMapPool ==
    [{"s1", "s2"} -> [value : {None, Some(ValueA), Some(ValueB), Some(ValuePadded)},
                      confidence : {90}]]
        \cup [{"s1"} -> [value : {None, Some(ValueB)}, confidence : {90}]]

PatternsPool == {<<>>, <<<<"A">>>>, <<<<"b", " ">>, <<"a", "B">>>>}

\* conditions as an imported rule_json can hold them: each operator on each slot, a
\* condition without operator, one without slot, one with an unknown operator, and
\* one carrying two operators
ConditionPool ==
    {[slot |-> k, contains_any |-> p] : k \in {"s1", "s2"}, p \in PatternsPool}
        \cup {[slot |-> k, not_contains_any |-> p] : k \in {"s1", "s2"}, p \in PatternsPool}
        \cup {[slot |-> k, eq_any |-> p] : k \in {"s1", "s2"}, p \in PatternsPool}
        \cup {[slot |-> "s1"], [contains_any |-> <<<<"A">>>>],
              [slot |-> "s1", matches |-> <<<<"A">>>>],
              [slot |-> "s1", eq_any |-> <<<<"A">>>>, not_contains_any |-> <<<<"A">>>>]}

ChildPool ==
    {[slot |-> "s1", contains_any |-> <<<<"A">>>>],
     [slot |-> "s2", eq_any |-> <<<<"a", "B">>>>],
     [slot |-> "s2", not_contains_any |-> <<<<"b", " ">>>>]}

RuleJsonPool ==
    {[all |-> <<a, b>>] : a \in ChildPool, b \in ChildPool}
        \cup {[any |-> <<a, b>>] : a \in ChildPool, b \in ChildPool}
        \cup ChildPool
        \cup {[all |-> <<>>], [any |-> <<>>], EmptyDict,
              [all |-> <<[slot |-> "s1", contains_any |-> <<<<"A">>>>]>>,
               any |-> <<[slot |-> "s2", not_contains_any |-> <<<<"b", " ">>>>]>>],
              [none |-> <<[slot |-> "s1", contains_any |-> <<<<"A">>>>]>>],
              [all |-> <<[slot |-> "s1", contains_any |-> <<<<"A">>>>], NotADict>>],
              [any |-> <<[slot |-> "s1", contains_any |-> <<<<"A">>>>], NotADict>>],
              [any |-> <<NotADict>>],
              [any |-> <<[slot |-> "s1", contains_any |-> <<<<"A">>>>],
                         [contains_any |-> <<<<"A">>>>]>>]}

RiskRule(code, rule_json, enabled) ==
    [rule_id |-> code, code |-> code,
     severity |-> IF code = "R1" THEN "high" ELSE "low",
     note_template |-> IF code = "R1" THEN None ELSE Some("note"),
     rule_json |-> rule_json, enabled |-> enabled]

\* one rule, or a first rule (disabled, of unknown shape, or malformed) and a second
RiskRulesPool ==
    {<<RiskRule("R1", rj, TRUE)>> : rj \in RuleJsonPool}
        \cup {<<RiskRule("R1", first, e), RiskRule("R2", second, TRUE)>> :
                 first \in {[slot |-> "s1", contains_any |-> <<<<"A">>>>],
                            [none |-> <<[slot |-> "s1", contains_any |-> <<<<"A">>>>]>>],
                            [any |-> <<NotADict>>]},
                 e \in BOOLEAN, second \in ChildPool}

InitRisk ==
    /\ call \in [fn : {"evaluate_risk_rules"}, slots : RiskSlotMapPool,
                 rules : RiskRulesPool]
               \cup [fn : {"_evaluate_condition"}, slots : RiskSlotMapPool,
                     condition : ConditionPool]
    /\ result = <<>>
    /\ IdleSession
    /\ IdleReload

\* the call returns its flags, or ends with the exception a rule raised
EvalRisk ==
    /\ call # <<>>
    /\ call.fn = "evaluate_risk_rules"
    /\ result = <<>>
    /\ result' = IF RiskRulesRaise(call.slots, call.rules)
                 THEN <<[raised |-> TRUE, flags |-> <<>>]>>
                 ELSE <<[raised |-> FALSE,
                         flags |-> evaluate_risk_rules(call.slots, call.rules)]>>
    /\ UNCHANGED <<brain_config, state, request, response, call, cache, db, procs>>

EvalCondition ==
    /\ call # <<>>
    /\ call.fn = "_evaluate_condition"
    /\ result = <<>>
    /\ result' = <<_evaluate_condition(call.slots, call.condition)>>
    /\ UNCHANGED <<brain_config, state, request, response, call, cache, db, procs>>

SpecRisk == InitRisk /\ [][EvalRisk \/ EvalCondition]_vars

RiskReturned ==
    call # <<>> /\ call.fn = "evaluate_risk_rules" /\ result # <<>> /\ ~result[1].raised

\* the number of children of a composite that hold
HoldingChildren(c, children) ==
    Cardinality({i \in DOMAIN children : _evaluate_condition(c.slots, children[i])})

\* the rule at position i of the call matches, as the claim defines matching
RuleMatches(c, i) ==
    LET rule_json == c.rules[i].rule_json IN
    IF "all" \in DOMAIN rule_json
    THEN HoldingChildren(c, rule_json["all"]) = Len(rule_json["all"])
    ELSE IF "any" \in DOMAIN rule_json
    THEN HoldingChildren(c, rule_json["any"]) >= 1
    ELSE _evaluate_condition(c.slots, rule_json)

\* the positions of the enabled rules that match
FlaggedRules(c) == {i \in DOMAIN c.rules : c.rules[i].enabled /\ RuleMatches(c, i)}

\* C13: a rule {all: [conditions]} matches iff every child condition holds, a rule
\* {any: [conditions]} matches iff at least one child condition holds, a bare
\* condition matches iff it holds; one flag is emitted for each (enabled) rule that
\* matches and none for a rule that does not, in the order of the rules.
C13_AllAnyBare ==
    RiskReturned =>
        /\ Len(result[1].flags) = Cardinality(FlaggedRules(call))
        /\ \A r \in DOMAIN result[1].flags :
              \E i \in FlaggedRules(call) :
                  /\ Cardinality({j \in FlaggedRules(call) : j <= i}) = r
                  /\ result[1].flags[r].code = call.rules[i].code

\* an all-rule with one child holding and one not (no flag), in a returned call
C13_Witness ==
    /\ RiskReturned
    /\ Len(call.rules) = 1
    /\ "all" \in DOMAIN call.rules[1].rule_json
    /\ Len(call.rules[1].rule_json["all"]) = 2
    /\ HoldingChildren(call, call.rules[1].rule_json["all"]) = 1
    /\ result[1].flags = <<>>

ConditionEvaluated ==
    call # <<>> /\ call.fn = "_evaluate_condition" /\ result # <<>>

\* the condition of the call names a slot and op is the operator it is evaluated by
OperatorIs(op) ==
    /\ "slot" \in DOMAIN call.condition
    /\ op \in DOMAIN call.condition
    /\ op = "not_contains_any" => "contains_any" \notin DOMAIN call.condition
    /\ op = "eq_any" => {"contains_any", "not_contains_any"} \cap DOMAIN call.condition = {}

ConditionValue == SlotValueOf(call.slots, call.condition.slot)

\* some listed string, lower-cased, occurs in the lower-cased value
SomeListedContained(op) ==
    \E i \in DOMAIN call.condition[op] :
        Contains(Lower(call.condition[op][i]), Lower(Val(ConditionValue)))

C14_ContainsPart ==
    /\ OperatorIs("contains_any") =>
          (result[1] <=> ~IsNone(ConditionValue) /\ SomeListedContained("contains_any"))
    /\ OperatorIs("not_contains_any") =>
          (result[1] <=> IsNone(ConditionValue) \/ ~SomeListedContained("not_contains_any"))

\* the statement as made: eq_any compares the whole value ignoring case only
C14_Original ==
    ConditionEvaluated =>
        /\ C14_ContainsPart
        /\ OperatorIs("eq_any") =>
              (result[1] <=>
                  /\ ~IsNone(ConditionValue)
                  /\ \E i \in DOMAIN call.condition["eq_any"] :
                        Lower(call.condition["eq_any"][i]) = Lower(Val(ConditionValue)))

\* C14: a risk condition on a slot evaluates as follows. contains_any is true iff the
\* lower-cased string form of the value contains one of the listed substrings, taken
\* in lower case (false when the value is absent); not_contains_any is true iff none
\* of them is contained (true when the value is absent); eq_any is true iff the whole
\* value equals one of the listed values once both are lower-cased and stripped of
\* the blanks at their ends (never true when the value is absent).
C14_ConditionOperators ==
    ConditionEvaluated =>
        /\ C14_ContainsPart
        /\ OperatorIs("eq_any") =>
              (result[1] <=>
                  /\ ~IsNone(ConditionValue)
                  /\ \E i \in DOMAIN call.condition["eq_any"] :
                        Strip(Lower(call.condition["eq_any"][i]))
                            = Strip(Lower(Val(ConditionValue))))

\* eq_any holds for a value that differs from the listed one by case and by blanks
C14_Witness ==
    /\ ConditionEvaluated
    /\ OperatorIs("eq_any")
    /\ ConditionValue = Some(ValuePadded)
    /\ call.condition["eq_any"] = <<<<"A">>>>
    /\ result[1] = TRUE

RiskEvaluated == call # <<>> /\ call.fn = "evaluate_risk_rules" /\ result # <<>>

\* C15: evaluate_risk_rules fails closed and never raises on a malformed or
\* unrecognized rule or condition shape: a rule whose shape is not recognized yields
\* no flag, and the remaining rules in the list are still evaluated (every enabled
\* rule that matches gets its flag).
C15_FailsClosed ==
    RiskEvaluated =>
        /\ ~result[1].raised
        /\ \A i \in FlaggedRules(call) :
              \E r \in DOMAIN result[1].flags : result[1].flags[r].code = call.rules[i].code

-----------------------------------------------------------------------------
(* evaluate_skip_rules applied to bounded inputs *)

SkipRulePool ==
    [condition_slot : {"s1", "s2"},
     condition_type : {"contains_any", "not_contains_any", "equals_any",
                       "not_equals_any", "matches"},
     condition_values : {<<>>, <<<<"A">>>>, <<<<"b">>, <<"a", "B">>>>},
     skip_question_ids : {<<"q1">>, <<"q2", "q3">>}]

\* one rule, or one of three first rules followed by any rule
SkipRulesPool ==
    {<<r>> : r \in SkipRulePool}
        \cup {<<k, r>> : k \in {SessionSkipRules[1], SessionSkipRules[2],
                                [condition_slot |-> "s2",
                                 condition_type |-> "not_contains_any",
                                 condition_values |-> <<<<"A">>>>,
                                 skip_question_ids |-> <<"q3", "q4">>]},
                         r \in SkipRulePool}

InitSkip ==
    /\ call \in [fn : {"evaluate_skip_rules"}, skip_rules : SkipRulesPool,
                 slots : SlotMapPool]
    /\ result = <<>>
    /\ IdleSession
    /\ IdleReload

EvalSkip ==
    /\ call # <<>>
    /\ call.fn = "evaluate_skip_rules"
    /\ result = <<>>
    /\ result' = <<evaluate_skip_rules(call.skip_rules, call.slots)>>
    /\ UNCHANGED <<brain_config, state, request, response, call, cache, db, procs>>

SpecSkip == InitSkip /\ [][EvalSkip]_vars

SkipEvaluated == call # <<>> /\ call.fn = "evaluate_skip_rules" /\ result # <<>>

\* the slot map with every absent condition slot put in with a null value
NullFilled(c) ==
    [k \in DOMAIN c.slots \cup {c.skip_rules[i].condition_slot : i \in DOMAIN c.skip_rules}
        |-> IF k \in DOMAIN c.slots THEN c.slots[k]
            ELSE [value |-> None, confidence |-> 0]]

\* C16: evaluate_skip_rules evaluates a rule whose condition slot is absent from the
\* slot map against the empty string (so not_contains_any holds for it and
\* contains_any with non-empty values does not), exactly as for a slot that is
\* present with a null value.
C16_AbsentAsEmpty ==
    SkipEvaluated =>
        /\ result[1] = evaluate_skip_rules(call.skip_rules, NullFilled(call))
        /\ \A i \in DOMAIN call.skip_rules :
              /\ call.skip_rules[i].condition_slot \notin DOMAIN call.slots
              /\ call.skip_rules[i].condition_type = "not_contains_any"
              => Range(call.skip_rules[i].skip_question_ids) \subseteq result[1]

\* C17: the set returned by evaluate_skip_rules is exactly the union of
\* skip_question_ids over the rules whose condition holds: every id listed by a
\* firing rule is in it, and no id is in it unless some firing rule lists it.
C17_SkipUnion ==
    SkipEvaluated =>
        \A q \in {"q1", "q2", "q3", "q4"} \cup result[1] :
            q \in result[1] <=>
                \E i \in DOMAIN call.skip_rules :
                    /\ SkipRuleFires(call.skip_rules[i], call.slots)
                    /\ \E n \in DOMAIN call.skip_rules[i].skip_question_ids :
                          call.skip_rules[i].skip_question_ids[n] = q

\* two rules fire and list different questions: the result holds the ids of both
C17_Witness ==
    /\ SkipEvaluated
    /\ Len(call.skip_rules) = 2
    /\ SkipRuleFires(call.skip_rules[1], call.slots)
    /\ SkipRuleFires(call.skip_rules[2], call.slots)
    /\ call.skip_rules[1].skip_question_ids = <<"q1">>
    /\ call.skip_rules[2].skip_question_ids = <<"q2", "q3">>
    /\ result[1] = {"q1", "q2", "q3"}

-----------------------------------------------------------------------------
(* select_next_question_quick applied to bounded inputs *)

\* slots and slots_raw are two forms of the same state['slots']
InitQuickSelect ==
    /\ call \in {c \in [fn : {"select_next_question_quick"},
                        questions : SelectQuestionsPool,
                        slots : SlotMapPool, slots_raw : SlotMapPool,
                        risk_flags : {<<>>, <<[code |-> "R1", severity |-> "high",
                                               note |-> None, evidence |-> <<"s2">>]>>},
                        asked_question_ids : {<<>>, <<"q1">>},
                        weights : {DefaultWeights},
                        slot_definitions : {SessionSlots},
                        skip_rules : {<<>>, SessionSkipRules},
                        policy : PolicyPool,
                        last_question_id : {None, Some("q1"), Some("q2")}] :
                    c.slots_raw = c.slots}
    /\ result = <<>>
    /\ IdleSession
    /\ IdleReload

EvalQuickSelect ==
    /\ call # <<>>
    /\ call.fn = "select_next_question_quick"
    /\ result = <<>>
    /\ result' = <<select_next_question_quick(call.questions, call.slots, call.slots_raw,
                       call.risk_flags, call.asked_question_ids, call.weights,
                       call.slot_definitions, call.skip_rules, call.policy,
                       call.last_question_id)>>
    /\ UNCHANGED <<brain_config, state, request, response, call, cache, db, procs>>

SpecQuickSelect == InitQuickSelect /\ [][EvalQuickSelect]_vars

QuickSelected ==
    call # <<>> /\ call.fn = "select_next_question_quick" /\ result # <<>>

\* the candidates that are re-ranked: the first five by base score
RerankedCandidates(c) ==
    select_next_questions(c.questions, c.slots, c.risk_flags, c.asked_question_ids, 1,
        c.weights, c.slot_definitions, c.skip_rules, QuickCandidateCount,
        ConfidenceThreshold)

\* base score plus quick adjustment of the question carrying the id
AdjustedScore(c, id) ==
    LET q == c.questions[CHOOSE i \in DOMAIN c.questions : c.questions[i].question_id = id]
    IN  calculate_question_score(q, 1, MissingSlots(c.slot_definitions, c.slots,
                ConfidenceThreshold),
            ActiveRiskCodes(c.risk_flags), Range(c.asked_question_ids),
            RequiredSlots(c.slot_definitions), c.weights)
        + quick_adjustment(q, c.slots_raw, c.policy, c.last_question_id)

\* the ids of the re-ranked candidates, and those that differ from last_question_id
CandidateIds(c) == {RerankedCandidates(c)[i].id : i \in DOMAIN RerankedCandidates(c)}

OtherIds(c) == {id \in CandidateIds(c) : Some(id) # c.last_question_id}

HighestAmong(c, id, ids) ==
    id \in ids /\ \A o \in ids : AdjustedScore(c, id) >= AdjustedScore(c, o)

\* C18: select_next_question_quick returns the candidate of highest adjusted score
\* among those whose id differs from last_question_id whenever the re-ranked
\* candidates hold one, and the top candidate (whose id is last_question_id) only
\* when every re-ranked candidate has that id; without candidates it returns nothing.
C18_QuickDedup ==
    QuickSelected =>
        IF OtherIds(call) # {}
        THEN /\ ~IsNone(result[1])
             /\ HighestAmong(call, Val(result[1]).id, OtherIds(call))
        ELSE IF CandidateIds(call) # {}
        THEN /\ ~IsNone(result[1])
             /\ Some(Val(result[1]).id) = call.last_question_id
             /\ HighestAmong(call, Val(result[1]).id, CandidateIds(call))
        ELSE IsNone(result[1])

\* the last question has the highest adjusted score of the candidates and another
\* candidate exists: the other one is returned
C18_Witness ==
    /\ QuickSelected
    /\ call.last_question_id = Some("q1")
    /\ HighestAmong(call, "q1", CandidateIds(call))
    /\ ~HighestAmong(call, "q2", CandidateIds(call))
    /\ result[1] # None
    /\ Val(result[1]).id = "q2"

-----------------------------------------------------------------------------
(* Quick sessions: a turn that finds no question to ask *)

\* the stop conditions, evaluated on the session as the turn left it, do not stop it
\* (without a policy the only condition is the fallback budget)
NotStoppedByCondition(st) ==
    IF IsNone(SessionPolicy) THEN st.quick_state.asked_count < FallbackMaxQuestions
    ELSE ~evaluate_stop_conditions(Val(SessionPolicy), st.slots,
              st.quick_state.asked_count, st.quick_state.low_info_streak)[1]

\* every question is disabled or excluded by the skip filter
NoCandidate(st) ==
    \A i \in DOMAIN brain_config.questions :
        \/ ~Get(brain_config.questions[i], "enabled", TRUE)
        \/ brain_config.questions[i].question_id \in
              evaluate_skip_rules(brain_config.skip_rules, st.slots)

\* the quick-mode turn ended the interview for want of questions
EndedNoQuestions ==
    /\ state'.quick_state.stop_reason = Some("no_questions")
    /\ response'.is_complete
    /\ response'.next_questions = <<>>
    /\ state'.next_questions = <<>>

\* the statement as made: with or without a configured policy
C19_Original ==
    [][(QuickAnswerStep /\ NotStoppedByCondition(state') /\ NoCandidate(state'))
          => EndedNoQuestions]_vars

\* C19: when a quick policy is configured, a quick-mode turn that is not stopped by a
\* stop condition and finds no candidate question left after filtering ends the
\* interview with stop_reason = no_questions, is_complete = true and an empty
\* next-question list; without a configured policy such a turn also ends the
\* interview with an empty next-question list, but leaves stop_reason as it was.
C19_NoQuestionsStop ==
    [][(QuickAnswerStep /\ NotStoppedByCondition(state') /\ NoCandidate(state'))
          => IF ~IsNone(SessionPolicy) THEN EndedNoQuestions
             ELSE /\ response'.is_complete
                  /\ response'.next_questions = <<>>
                  /\ state'.next_questions = <<>>
                  /\ state'.quick_state.stop_reason = state.quick_state.stop_reason]_vars

\* a session with a policy, ended for want of questions before any stop condition
C19_Witness ==
    /\ state # NoSession
    /\ ~IsNone(SessionPolicy)
    /\ NotStoppedByCondition(state)
    /\ NoCandidate(state)
    /\ state.quick_state.stop_reason = Some("no_questions")
    /\ response.is_complete
    /\ response.next_questions = <<>>

-----------------------------------------------------------------------------
(* The scoring and rule functions together: what a call does to its arguments *)

InitAdjust ==
    /\ call \in [fn : {"quick_adjustment"},
                 question : {SelectQuestions[i] : i \in DOMAIN SelectQuestions},
                 slots : SlotMapPool, policy : PolicyPool,
                 last_question_id : {None, Some("q1"), Some("q3")}]
    /\ result = <<>>
    /\ IdleSession
    /\ IdleReload

EvalAdjust ==
    /\ call # <<>>
    /\ call.fn = "quick_adjustment"
    /\ result = <<>>
    /\ result' = <<quick_adjustment(call.question, call.slots, call.policy,
                                    call.last_question_id)>>
    /\ UNCHANGED <<brain_config, state, request, response, call, cache, db, procs>>

InitPure ==
    \/ InitStop
    \/ InitScore
    \/ InitSelect
    \/ InitRisk
    \/ InitSkip
    \/ InitQuickSelect
    \/ InitAdjust

NextPure ==
    \/ EvalStop
    \/ EvalScore
    \/ SelectMissing
    \/ SelectReturn
    \/ EvalRisk
    \/ EvalSkip
    \/ EvalQuickSelect
    \/ EvalAdjust

SpecPure == InitPure /\ [][NextPure]_vars

-----------------------------------------------------------------------------
(* The scoring and rule functions run a second time on the same arguments *)

\* what the function named by the call returns on the arguments of the call
PureOutput(c) ==
    CASE c.fn = "evaluate_stop_conditions" ->
            evaluate_stop_conditions(c.policy, c.slots, c.asked_count, c.low_info_streak)
      [] c.fn = "calculate_question_score" -> ScoreOf(c, c.asked_question_ids)
      [] c.fn = "select_next_questions" ->
            select_next_questions(c.questions, c.slots, c.risk_flags,
                c.asked_question_ids, c.current_round, c.weights, c.slot_definitions,
                c.skip_rules, c.count, c.confidence_threshold)
      [] c.fn = "evaluate_risk_rules" ->
            IF RiskRulesRaise(c.slots, c.rules) THEN [raised |-> TRUE, flags |-> <<>>]
            ELSE [raised |-> FALSE, flags |-> evaluate_risk_rules(c.slots, c.rules)]
      [] c.fn = "_evaluate_condition" -> _evaluate_condition(c.slots, c.condition)
      [] c.fn = "evaluate_skip_rules" -> evaluate_skip_rules(c.skip_rules, c.slots)
      [] c.fn = "select_next_question_quick" ->
            select_next_question_quick(c.questions, c.slots, c.slots_raw, c.risk_flags,
                c.asked_question_ids, c.weights, c.slot_definitions, c.skip_rules,
                c.policy, c.last_question_id)
      [] c.fn = "quick_adjustment" ->
            quick_adjustment(c.question, c.slots, c.policy, c.last_question_id)

\* the number of entries of result once the first run of the call has returned
FirstRunLength == IF call.fn = "select_next_questions" THEN 2 ELSE 1

\* mutant: the second run of select_next_questions returns its list back to front,
\* as a sort that depends on something else than its input could
RunAgain_OtherOrder ==
    /\ call # <<>>
    /\ Len(result) = FirstRunLength
    /\ result' = result \o
          <<IF call.fn = "select_next_questions"
            THEN [i \in DOMAIN PureOutput(call) |->
                     PureOutput(call)[Len(PureOutput(call)) + 1 - i]]
            ELSE PureOutput(call)>>
    /\ UNCHANGED <<brain_config, state, request, response, call, cache, db, procs>>

\* the same function called once more with the same arguments
RunAgain ==
    /\ call # <<>>
    /\ Len(result) = FirstRunLength
    /\ result' = result \o <<PureOutput(call)>>
    /\ UNCHANGED <<brain_config, state, request, response, call, cache, db, procs>>

SpecTwice == InitPure /\ [][NextPure \/ EvalCondition \/ RunAgain]_vars

RanTwice == call # <<>> /\ Len(result) = FirstRunLength + 1

-----------------------------------------------------------------------------
(* Quick-mode selection and the round hints *)

\* the questions with every round hint taken away
NoRoundHints(questions) ==
    [i \in DOMAIN questions |-> [questions[i] EXCEPT !.round_hint = None]]

\* the id of the question returned, if one is
ReturnedId(r) == IF IsNone(r) THEN None ELSE Some(Val(r).id)

\* C22: quick-mode selection ignores rounds: a question's round_hint has no effect
\* on which question select_next_question_quick returns (the round_fit term
\* contributes 0 to every quick-mode candidate), so the same question is returned
\* when the round hints are taken away.
C22_RoundIgnored ==
    QuickSelected =>
        ReturnedId(result[1]) =
            ReturnedId(select_next_question_quick(NoRoundHints(call.questions),
                call.slots, call.slots_raw, call.risk_flags, call.asked_question_ids,
                call.weights, call.slot_definitions, call.skip_rules, call.policy,
                call.last_question_id))

-----------------------------------------------------------------------------
(* quick_adjustment applied to bounded inputs *)

SpecAdjust == InitAdjust /\ [][EvalAdjust]_vars

Adjusted == call # <<>> /\ call.fn = "quick_adjustment" /\ result # <<>>

AdjustCoverage == Range(call.question.slot_coverage)

\* the critical slots of the policy, by position, that are covered and have no value
UnsetCoveredCritical ==
    {i \in DOMAIN call.policy.critical_slots :
        /\ call.policy.critical_slots[i].id \in AdjustCoverage
        /\ ~HasValue(call.slots, call.policy.critical_slots[i].id)}

BonusTerm ==
    call.policy.scoring_weights.missing_critical_slot_bonus
        * Cardinality(UnsetCoveredCritical)

DiversifyTerm ==
    IF /\ Some(call.question.question_id) = call.last_question_id
       /\ UnsetCoveredCritical = {}
    THEN call.policy.scoring_weights.diversify_topic_penalty ELSE 0

EveryCoveredHasValue == \A k \in AdjustCoverage : HasValue(call.slots, k)

\* the statement as made: the repeat penalty whenever every covered slot has a value
C23_Original ==
    Adjusted =>
        result[1] = BonusTerm - DiversifyTerm
                      - (IF EveryCoveredHasValue
                         THEN call.policy.scoring_weights.repeat_slot_penalty ELSE 0)

\* C23: quick_adjustment returns exactly: plus missing_critical_slot_bonus once for
\* each critical slot that is in the question's slot_coverage and has no value; minus
\* diversify_topic_penalty if the question's id equals last_question_id and the
\* question covers no unset critical slot; minus repeat_slot_penalty if the question
\* covers at least one slot and every slot it covers has a value; and no other term.
C23_AdjustmentTerms ==
    Adjusted =>
        result[1] = BonusTerm - DiversifyTerm
                      - (IF AdjustCoverage # {} /\ EveryCoveredHasValue
                         THEN call.policy.scoring_weights.repeat_slot_penalty ELSE 0)

\* a question covering two unset critical slots, asked last: twice the bonus, no
\* penalty
C23_Witness ==
    /\ Adjusted
    /\ Cardinality(UnsetCoveredCritical) = 2
    /\ Some(call.question.question_id) = call.last_question_id
    /\ result[1] = 2 * call.policy.scoring_weights.missing_critical_slot_bonus

-----------------------------------------------------------------------------
(* The flags of evaluate_risk_rules: one for a rule, and what it carries *)

\* the conditions a rule declares: the children of its composite, or the rule itself
DeclaredConditions(rule_json) ==
    IF "all" \in DOMAIN rule_json THEN rule_json["all"]
    ELSE IF "any" \in DOMAIN rule_json THEN rule_json["any"]
    ELSE <<rule_json>>

\* the positions of the declared conditions that name a slot
SlotNaming(conds) == {j \in DOMAIN conds : "slot" \in DOMAIN conds[j]}

\* ev lists the slot of every slot-naming condition, in the order of declaration
IsEvidenceOf(ev, conds) ==
    /\ Len(ev) = Cardinality(SlotNaming(conds))
    /\ \A j \in SlotNaming(conds) :
          ev[Cardinality({k \in SlotNaming(conds) : k <= j})] = conds[j].slot

\* the position in the rule list of the rule behind the r-th flag
FlagRule(c, r) ==
    CHOOSE i \in FlaggedRules(c) : Cardinality({j \in FlaggedRules(c) : j <= i}) = r

\* C24: evaluate_risk_rules emits exactly one RiskFlag per enabled rule that matches
\* (never one per condition, none for a disabled or unmatched rule), in rule order,
\* carrying the rule's code, severity and note, with evidence equal to the slot keys
\* referenced by the rule's conditions in declaration order (the single condition's
\* slot for a rule with no composite).
C24_OneFlagPerRule ==
    RiskReturned =>
        /\ Len(result[1].flags) = Cardinality(FlaggedRules(call))
        /\ \A r \in DOMAIN result[1].flags :
              LET rule == call.rules[FlagRule(call, r)]
                  flag == result[1].flags[r]
              IN  /\ flag.code = rule.code
                  /\ flag.severity = rule.severity
                  /\ flag.note = rule.note_template
                  /\ IsEvidenceOf(flag.evidence, DeclaredConditions(rule.rule_json))

\* an all-rule over two conditions on two slots: one flag, with both slots in order
C24_Witness ==
    /\ RiskReturned
    /\ Len(call.rules) = 1
    /\ "all" \in DOMAIN call.rules[1].rule_json
    /\ Len(call.rules[1].rule_json["all"]) = 2
    /\ Len(result[1].flags) = 1
    /\ result[1].flags[1].code = "R1"
    /\ result[1].flags[1].evidence = <<"s1", "s2">>

-----------------------------------------------------------------------------
(* Quick-mode progress next to the stop conditions, as submit_answer computes them *)

\* critical-slot lists of none, one, two and three entries; s3 is a slot no answer
\* fills, and one list names s1 twice
CriticalListPool ==
    {<<>>, <<[id |-> "s1"]>>, <<[id |-> "s1"], [id |-> "s2"]>>,
     <<[id |-> "s1"], [id |-> "s2"], [id |-> "s3"]>>,
     <<[id |-> "s1"], [id |-> "s2"], [id |-> "s1"]>>}

ProgressPolicyPool ==
    {[Val(load_quick_policy([modes_quick |-> QuickFull])) EXCEPT !.critical_slots = cs] :
        cs \in CriticalListPool}

InitProgress ==
    /\ call \in [fn : {"calculate_quick_progress"}, policy : ProgressPolicyPool,
                 slots : SlotMapPool, asked_count : {1, 4}, low_info_streak : {0, 2}]
    /\ result = <<>>
    /\ IdleSession
    /\ IdleReload

\* the stop evaluation and the progress of one quick turn, on the same slots
EvalProgress ==
    /\ call # <<>>
    /\ call.fn = "calculate_quick_progress"
    /\ result = <<>>
    /\ result' = <<evaluate_stop_conditions(call.policy, call.slots, call.asked_count,
                                            call.low_info_streak),
                   calculate_quick_progress(call.policy, call.slots)>>
    /\ UNCHANGED <<brain_config, state, request, response, call, cache, db, procs>>

SpecProgress == InitProgress /\ [][EvalProgress]_vars

ProgressComputed ==
    call # <<>> /\ call.fn = "calculate_quick_progress" /\ Len(result) = 2

\* the entries of the critical-slot list whose slot has a non-null value
FilledCritical ==
    {i \in DOMAIN call.policy.critical_slots :
        HasValue(call.slots, call.policy.critical_slots[i].id)}

\* C25: quick-mode progress is 100 * (number of critical slots with a non-null
\* value) / (number of critical slots), truncated to an integer, and 0 when no
\* critical slots are configured; it lies in 0..100, and it is 100 exactly when the
\* stop condition critical_slots_met holds.
C25_QuickProgress ==
    ProgressComputed =>
        LET total == Len(call.policy.critical_slots)
            filled == Cardinality(FilledCritical)
            percent == result[2]
        IN  /\ percent \in 0..100
            /\ total = 0 => percent = 0
            /\ total > 0 => /\ percent * total <= 100 * filled
                            /\ 100 * filled < (percent + 1) * total
            /\ percent = 100 <=> result[1] = <<TRUE, Some("critical_slots_met")>>

\* two of three critical slots have a value: 66, and the turn does not stop on the
\* critical slots
C25_Witness ==
    /\ ProgressComputed
    /\ Len(call.policy.critical_slots) = 3
    /\ Cardinality(FilledCritical) = 2
    /\ result[2] = 66
    /\ result[1][2] # Some("critical_slots_met")

-----------------------------------------------------------------------------
(* calculate_progress_percent applied to bounded inputs *)

\* slot values at the confidences on both sides of the two thresholds, with and
\* without a value
PercentValuePool ==
    {[value |-> None, confidence |-> 0], [value |-> None, confidence |-> 90],
     [value |-> Some(ValueA), confidence |-> 39], [value |-> Some(ValueA), confidence |-> 40],
     [value |-> Some(ValueA), confidence |-> 69], [value |-> Some(ValueA), confidence |-> 70]}

PercentSlotMapPool ==
    [{"s1", "s2", "s3"} -> PercentValuePool] \cup [{"s1"} -> PercentValuePool]

\* slot definitions with none, one or two slots in each bucket; a definition without
\* is_required counts as optional
SlotDefinitionsPool ==
    {<<>>,
     <<[slot_key |-> "s1", is_required |-> TRUE]>>,
     <<[slot_key |-> "s1"]>>,
     <<[slot_key |-> "s1", is_required |-> TRUE], [slot_key |-> "s2", is_required |-> FALSE]>>,
     <<[slot_key |-> "s1", is_required |-> TRUE], [slot_key |-> "s2", is_required |-> TRUE]>>,
     <<[slot_key |-> "s1", is_required |-> FALSE], [slot_key |-> "s2", is_required |-> FALSE]>>,
     <<[slot_key |-> "s1", is_required |-> TRUE], [slot_key |-> "s2", is_required |-> TRUE],
       [slot_key |-> "s3", is_required |-> FALSE]>>,
     <<[slot_key |-> "s1", is_required |-> TRUE], [slot_key |-> "s2", is_required |-> FALSE],
       [slot_key |-> "s3", is_required |-> FALSE]>>}

InitPercent ==
    /\ call \in [fn : {"calculate_progress_percent"}, slots : PercentSlotMapPool,
                 slot_definitions : SlotDefinitionsPool]
    /\ result = <<>>
    /\ IdleSession
    /\ IdleReload

EvalPercent ==
    /\ call # <<>>
    /\ call.fn = "calculate_progress_percent"
    /\ result = <<>>
    /\ result' = <<calculate_progress_percent(call.slots, call.slot_definitions)>>
    /\ UNCHANGED <<brain_config, state, request, response, call, cache, db, procs>>

SpecPercent == InitPercent /\ [][EvalPercent]_vars

PercentComputed ==
    call # <<>> /\ call.fn = "calculate_progress_percent" /\ result # <<>>

\* twice the fill level the statement gives the slot
StatedLevel2(key) ==
    IF ~HasValue(call.slots, key) THEN 0
    ELSE IF call.slots[key].confidence >= 70 THEN 2
    ELSE IF call.slots[key].confidence >= 40 THEN 1
    ELSE 0

\* the positions of the definitions in the required (TRUE) or optional bucket
Bucket(required) ==
    {i \in DOMAIN call.slot_definitions :
        ("is_required" \in DOMAIN call.slot_definitions[i]
            /\ call.slot_definitions[i].is_required) = required}

RECURSIVE SumLevel2(_)
SumLevel2(positions) ==
    IF positions = {} THEN 0
    ELSE LET i == CHOOSE j \in positions : TRUE
         IN  StatedLevel2(call.slot_definitions[i].slot_key) + SumLevel2(positions \ {i})

\* the mean fill level of a bucket as the fraction num / den, 1 for an empty bucket
MeanNum(required) ==
    IF Bucket(required) = {} THEN 1 ELSE SumLevel2(Bucket(required))

MeanDen(required) ==
    IF Bucket(required) = {} THEN 1 ELSE 2 * Cardinality(Bucket(required))

\* 60 * mean(required) + 40 * mean(optional), as the fraction StatedNum / StatedDen
StatedNum == 60 * MeanNum(TRUE) * MeanDen(FALSE) + 40 * MeanNum(FALSE) * MeanDen(TRUE)

StatedDen == MeanDen(TRUE) * MeanDen(FALSE)

\* C26: precise-mode progress is 60% times the mean fill level of the required
\* slots plus 40% times the mean fill level of the optional slots, the fill level of
\* a slot being 1.0 at confidence >= 0.7, 0.5 at confidence in [0.4, 0.7) and 0.0
\* otherwise (a null value at any confidence included), an empty bucket being
\* credited in full; the result lies in 0..100.  The percentage returned is that
\* number cut to a whole number.
C26_PreciseProgress ==
    PercentComputed =>
        /\ result[1] \in 0..100
        /\ result[1] * StatedDen <= StatedNum
        /\ StatedNum < (result[1] + 1) * StatedDen

-----------------------------------------------------------------------------
(* asked_question_ids over the answers of a session *)

NoDuplicate(seq) == \A i, j \in DOMAIN seq : seq[i] = seq[j] => i = j

\* the position of the first transcript answering the question id
FirstAnswer(transcripts, id) ==
    CHOOSE i \in DOMAIN transcripts :
        /\ transcripts[i].question_id = id
        /\ \A j \in 1..(i - 1) : transcripts[j].question_id # id

\* after is before, followed by the ids the transcripts answer that before does not
\* hold, each once, in the order of their first transcript
ExtendedInOrder(before, after, transcripts) ==
    /\ Len(after) >= Len(before)
    /\ SubSeq(after, 1, Len(before)) = before
    /\ {after[i] : i \in (Len(before) + 1)..Len(after)}
         = {transcripts[i].question_id : i \in DOMAIN transcripts} \ Range(before)
    /\ \A i, j \in (Len(before) + 1)..Len(after) :
          i < j => FirstAnswer(transcripts, after[i]) < FirstAnswer(transcripts, after[j])

-----------------------------------------------------------------------------
(* Sessions of both modes: the response and the stored state after an answer *)

InitSessions == Init \/ InitPrecise

\* submit_answer as one handler: the mode stored in the session decides which inputs
\* can arrive and whether the follow-up generator is consulted
SubmitAnswer ==
    /\ state # NoSession
    /\ IF state.interview_mode = "quick"
       THEN state.quick_state.asked_count < MaxAnswers
       ELSE state.questions_asked_count < MaxPreciseAsked
    /\ \E transcripts \in IF state.interview_mode = "quick"
                          THEN TranscriptsPool(PendingIds)
                          ELSE PreciseTranscriptsPool(PendingIds),
          updated_slots \in IF state.interview_mode = "quick"
                            THEN UpdatedSlotsPool ELSE PreciseUpdatedSlotsPool,
          ai_followup \in IF state.interview_mode = "precise" /\ FollowupsSoFar < MaxFollowups
                          THEN BOOLEAN ELSE {FALSE} :
          /\ request' = [transcripts |-> transcripts, updated_slots |-> updated_slots]
          /\ SubmitAnswerOf(request', ai_followup)
    /\ UNCHANGED <<brain_config, call, result, cache, db, procs>>

NextSessions == StartSession \/ SubmitAnswer

SpecSessions == InitSessions /\ [][NextSessions]_vars

Answered == state # NoSession /\ response # <<>> /\ response.kind = "answer"

\* C28: in both modes every submit_answer response has is_complete true exactly when
\* next_questions is empty, and a response that is not complete carries exactly one
\* next question, which is also what the stored state.next_questions holds.
C28_CompleteIffNoQuestion ==
    Answered =>
        /\ response.is_complete <=> response.next_questions = <<>>
        /\ ~response.is_complete => Len(response.next_questions) = 1
        /\ Len(state.next_questions) = Len(response.next_questions)
        /\ \A i \in DOMAIN response.next_questions :
              /\ state.next_questions[i].id = response.next_questions[i].id
              /\ state.next_questions[i].text = response.next_questions[i].text

\* a precise session whose scoring engine had no question left before the sixth
\* answer: completed, with no next question in the response or in the state
C28_Witness ==
    /\ Answered
    /\ state.interview_mode = "precise"
    /\ state.questions_asked_count < MinPreciseQuestions
    /\ response.is_complete
    /\ response.next_questions = <<>>
    /\ state.next_questions = <<>>

-----------------------------------------------------------------------------
(* Two submit_answer requests on one quick session.  Each request reads the session
   row, awaits the extraction, and writes the whole row back; the row it works on
   in between is its own copy.  procs holds the two requests. *)

\* both requests arrive at the started session
ReceiveAnswers ==
    /\ state # NoSession
    /\ procs = <<>>
    /\ \E t1, t2 \in TranscriptsPool(PendingIds), u1, u2 \in UpdatedSlotsPool :
          procs' = <<[pc |-> "received", loaded |-> state,
                      request |-> [transcripts |-> t1, updated_slots |-> u1]],
                     [pc |-> "received", loaded |-> state,
                      request |-> [transcripts |-> t2, updated_slots |-> u2]]>>
    /\ UNCHANGED <<brain_config, state, request, response, call, result, cache, db>>

\* SELECT round, state FROM sessions: the request takes its copy of the row
LoadSession(p) ==
    /\ procs # <<>>
    /\ procs[p].pc = "received"
    /\ procs' = [procs EXCEPT ![p].pc = "loaded", ![p].loaded = state]
    /\ UNCHANGED <<brain_config, state, request, response, call, result, cache, db>>

\* the rest of submit_answer, from the copy to UPDATE sessions SET state and the
\* response
SaveSession(p) ==
    /\ procs # <<>>
    /\ procs[p].pc = "loaded"
    /\ request' = procs[p].request
    /\ SubmitAnswerFrom(procs[p].loaded, request', FALSE)
    /\ procs' = [procs EXCEPT ![p].pc = "done"]
    /\ UNCHANGED <<brain_config, call, result, cache, db>>

NextConcurrent ==
    \/ StartSession
    \/ ReceiveAnswers
    \/ \E p \in {1, 2} : LoadSession(p)
    \/ \E p \in {1, 2} : SaveSession(p)

SpecConcurrent == Init /\ [][NextConcurrent]_vars

BothDone == procs # <<>> /\ procs[1].pc = "done" /\ procs[2].pc = "done"

\* the row submit_answer writes when it runs on the row st0 with nothing in between
AfterAnswer(st0, req) ==
    LET slots == [k \in DOMAIN st0.slots |->
                     IF k \in DOMAIN req.updated_slots THEN req.updated_slots[k]
                     ELSE st0.slots[k]]
        st == [st0 EXCEPT
                  !.history = @ + Len(req.transcripts),
                  !.asked_question_ids = AppendAsked(@, req.transcripts),
                  !.questions_asked_count = @ + Len(req.transcripts),
                  !.slots = slots]
        risk_flags == evaluate_risk_rules(slots, brain_config.risk_rules)
        turn == QuickTurn(req, st, slots, risk_flags,
                    (DOMAIN req.updated_slots) \cap (DOMAIN st0.slots),
                    calculate_progress_percent(slots, brain_config.slots))
    IN  Merge([st EXCEPT !.risk_flags = risk_flags, !.next_questions = turn[6],
                         !.history = turn[3]],
              [quick_state |-> Val(turn[4])])

\* the counters and lists of the row that every answer adds to
Counters(st) ==
    <<st.quick_state.asked_count, st.quick_state.low_info_streak,
      st.questions_asked_count, st.history, st.asked_question_ids>>

\* C29: for every interleaving of two submit_answer requests on the same session no
\* update is lost: after both complete, the stored counters (quick_state.asked_count,
\* low_info_streak, questions_asked_count, history, asked_question_ids) are those of
\* processing the two requests one after the other, in some order, from the row the
\* first of them read.
C29_NoLostUpdate ==
    BothDone =>
        \E p, q \in {1, 2} :
            /\ p # q
            /\ Counters(state)
                 = Counters(AfterAnswer(AfterAnswer(procs[p].loaded, procs[p].request),
                                        procs[q].request))

\* the requests run one after the other
RanSerially ==
    /\ BothDone
    /\ procs[1].loaded # procs[2].loaded

\* run one after the other, the two requests leave the counters of a serial run
C29_SerialRuns ==
    RanSerially =>
        \E p, q \in {1, 2} :
            /\ p # q
            /\ state = AfterAnswer(AfterAnswer(procs[p].loaded, procs[p].request),
                                   procs[q].request)

-----------------------------------------------------------------------------
(* Quick sessions: the question just answered and the question asked next *)

\* the arguments select_next_question_quick is called with on the session row st
SelectionCall(st) ==
    [questions |-> brain_config.questions, slots |-> st.slots, slots_raw |-> st.slots,
     risk_flags |-> st.risk_flags, asked_question_ids |-> st.asked_question_ids,
     weights |-> brain_config.scoring_weights, slot_definitions |-> brain_config.slots,
     skip_rules |-> brain_config.skip_rules]

\* the question most recently issued to the user: the one the session row holds
IssuedId(st) == st.next_questions[1].id

\* C30: over a whole quick session, from start_session through every answer, the
\* question returned in response to an answer is never the question that was just
\* answered whenever the re-ranked candidates hold another one, the first answer
\* included: last_question_id always identifies the question most recently issued,
\* the one issued by start_session too.
C30_NeverRepeatsIssued ==
    [][(/\ QuickAnswerStep
        /\ ~IsNone(SessionPolicy)
        /\ state.next_questions # <<>>
        /\ response'.next_questions # <<>>
        /\ CandidateIds(SelectionCall(state')) \ {IssuedId(state)} # {})
       => /\ response'.next_questions[1].id # IssuedId(state)
          /\ state.quick_state.last_question_id = Some(IssuedId(state))]_vars

\* the same for every answer but the first
C30_AfterFirstAnswer ==
    [][(/\ QuickAnswerStep
        /\ ~IsNone(SessionPolicy)
        /\ state.quick_state.asked_count > 0
        /\ state.next_questions # <<>>
        /\ response'.next_questions # <<>>
        /\ CandidateIds(SelectionCall(state')) \ {IssuedId(state)} # {})
       => /\ response'.next_questions[1].id # IssuedId(state)
          /\ state.quick_state.last_question_id = Some(IssuedId(state))]_vars

\* the first answer is followed by the question start_session issued, although
\* another candidate was there
FirstQuestionRepeated ==
    /\ state # NoSession
    /\ state.quick_state.asked_count = 1
    /\ ~IsNone(SessionPolicy)
    /\ response.kind = "answer"
    /\ response.next_questions # <<>>
    /\ response.next_questions[1].id = "q1"
    /\ request.transcripts # <<>>
    /\ request.transcripts[1].question_id = "q1"
    /\ CandidateIds(SelectionCall(state)) \ {"q1"} # {}

====
